---------------------------- MODULE Spec2Model ----------------------------
(***************************************************************************)
(* kumoctl: compilation of an OpenAPI document into MCP tools              *)
(* (GetToolsFromSpec / GenerateToolsFromSpec) and the per-call handler     *)
(* built by createAPIHandlerForTool (path substitution, query string,      *)
(* JSON body, headers, dispatch, response normalisation).                  *)
(*                                                                         *)
(* Strings are sequences of tokens.  A token is either one of the          *)
(* characters the code treats specially ("/", "{", "}", "_", "?", "#",     *)
(* "%", "&", "=", ...) or an atom: a run of ordinary letters or digits     *)
(* that no function of the program looks into ("users", "id", "123").     *)
(* A percent escape such as "%2F" is one token.                            *)
(***************************************************************************)
EXTENDS Integers, Sequences, FiniteSets, TLC

VARIABLES
    data,               \* the bytes read from the source, by what the decoders make of them
    spec,               \* the loaded document (openapi.APISpec)
    loadErr,            \* the error LoadSpec returned (<<>>: none)
    additionalHeaders,  \* http.Header given to GenerateToolsFromSpec
    upstream,           \* what the upstream endpoint answers when it answers
    phase,              \* "loading" | "unloaded" | "compiling" | "serving" | "failed" | "crashed"
    pending,            \* (path, method) pairs GetToolsFromSpec has not visited yet
    curPath,            \* the path whose operations the inner loop is iterating
    tools,              \* GetToolsFromSpec's local slice of descriptors
    compileErr,         \* the error GenerateToolsFromSpec returned (<<>>: none)
    server,             \* tools registered on the mcp.Server, by name
    calls,              \* the handler invocations, by call id
    network,            \* HTTP requests dispatched so far, in order
    configFile,         \* the LLM client's configuration file, as the configure command sees it
    configured          \* the runs of the configure command so far and the last one's outcome

vars == <<data, spec, loadErr, additionalHeaders, upstream, phase, pending, curPath, tools,
          compileErr, server, calls, network, configFile, configured>>

-----------------------------------------------------------------------------
(* Strings as token sequences *)

\* The tokens in Go's string order (byte order of their first character).
Alphabet ==
    <<" ", "\"", "#", "%", "&", "+", ",", "/", "1", "10", "123", "7", "=", "?",
      "Authorization", "Content-Type", "X-Key", "[", "]", "_",
      "active", "application/json", "email", "id", "limit", "n", "name",
      "posts", "postId", "status", "true", "users", "x", "{", "}">>

Rank(c) == CHOOSE i \in 1..Len(Alphabet) : Alphabet[i] = c

\* a < b for strings (lexicographic, a proper prefix first)
RECURSIVE LexLess(_, _)
LexLess(a, b) ==
    IF b = <<>> THEN FALSE
    ELSE IF a = <<>> THEN TRUE
    ELSE IF Head(a) = Head(b) THEN LexLess(Tail(a), Tail(b))
    ELSE Rank(Head(a)) < Rank(Head(b))

\* sort.Strings on a set of distinct strings
RECURSIVE SortStrings(_)
SortStrings(S) ==
    IF S = {} THEN <<>>
    ELSE LET m == CHOOSE x \in S : \A y \in S \ {x} : LexLess(x, y)
         IN  <<m>> \o SortStrings(S \ {m})

\* the concatenation of a sequence of strings
RECURSIVE Flatten(_)
Flatten(ss) == IF ss = <<>> THEN <<>> ELSE Head(ss) \o Flatten(Tail(ss))

\* strings.ReplaceAll(s, old, new) for a one-character old
RECURSIVE ReplaceAll(_, _, _)
ReplaceAll(s, old, new) ==
    IF s = <<>> THEN <<>>
    ELSE (IF Head(s) = old THEN new ELSE <<Head(s)>>) \o ReplaceAll(Tail(s), old, new)

RECURSIVE TrimLeft(_, _)
TrimLeft(s, c) ==
    IF s # <<>> /\ Head(s) = c THEN TrimLeft(Tail(s), c) ELSE s

RECURSIVE TrimRight(_, _)
TrimRight(s, c) ==
    IF s # <<>> /\ s[Len(s)] = c THEN TrimRight(SubSeq(s, 1, Len(s) - 1), c) ELSE s

\* strings.Trim(s, cutset) for a one-character cutset
Trim(s, c) == TrimRight(TrimLeft(s, c), c)

\* strings.TrimSuffix(s, suffix) for a one-character suffix
TrimSuffix(s, c) ==
    IF s # <<>> /\ s[Len(s)] = c THEN SubSeq(s, 1, Len(s) - 1) ELSE s

\* strings.Index(s, c) for a one-character c, from position i; 0 when absent
RECURSIVE IndexFrom(_, _, _)
IndexFrom(s, c, i) ==
    IF i > Len(s) THEN 0
    ELSE IF s[i] = c THEN i
    ELSE IndexFrom(s, c, i + 1)

Contains(s, c) == IndexFrom(s, c, 1) # 0

\* strings.Cut(s, sep): <<before, after, found>>
Cut(s, c) ==
    LET i == IndexFrom(s, c, 1)
    IN  IF i = 0 THEN [before |-> s, after |-> <<>>, found |-> FALSE]
        ELSE [before |-> SubSeq(s, 1, i - 1),
              after  |-> SubSeq(s, i + 1, Len(s)),
              found  |-> TRUE]

\* strings.Split(s, sep) for a one-character sep
RECURSIVE Split(_, _)
Split(s, c) ==
    LET cut == Cut(s, c)
    IN  IF cut.found THEN <<cut.before>> \o Split(cut.after, c) ELSE <<s>>

\* strings.ToUpper on an HTTP method name
ToUpper(method) ==
    CASE method = <<"get">>     -> <<"GET">>
      [] method = <<"post">>    -> <<"POST">>
      [] method = <<"put">>     -> <<"PUT">>
      [] method = <<"delete">>  -> <<"DELETE">>
      [] method = <<"patch">>   -> <<"PATCH">>
      [] method = <<"head">>    -> <<"HEAD">>
      [] method = <<"options">> -> <<"OPTIONS">>
      [] method = <<"trace">>   -> <<"TRACE">>
      [] OTHER                  -> method

-----------------------------------------------------------------------------
(* Values of an APIToolInput: map[string]interface{} decoded from JSON *)

\* A value is [t |-> its JSON type, v |-> its text].
StringValue(s) == [t |-> "string", v |-> s]
NumberValue(s) == [t |-> "number", v |-> s]
BoolValue(s)   == [t |-> "bool", v |-> s]
NullValue      == [t |-> "null", v |-> <<>>]

\* fmt.Sprintf("%v", value)
Sprintf(value) == IF value.t = "null" THEN <<"<nil>">> ELSE value.v

\* json.Marshal of one value
MarshalValue(value) ==
    CASE value.t = "string" -> <<"\"">> \o value.v \o <<"\"">>
      [] value.t = "null"   -> <<"null">>
      [] OTHER              -> value.v

\* json.Marshal(map[string]interface{}): the keys in sorted order
RECURSIVE MarshalMembers(_, _)
MarshalMembers(m, keys) ==
    IF keys = <<>> THEN <<>>
    ELSE <<"\"">> \o Head(keys) \o <<"\"", ":">> \o MarshalValue(m[Head(keys)])
         \o (IF Len(keys) > 1 THEN <<",">> ELSE <<>>)
         \o MarshalMembers(m, Tail(keys))

Marshal(m) == <<"{">> \o MarshalMembers(m, SortStrings(DOMAIN m)) \o <<"}">>

-----------------------------------------------------------------------------
(* net/url *)

\* The percent escape of each character that has one in the model.
EscapeTable ==
    <<<<" ", "%20">>, <<"\"", "%22">>, <<"#", "%23">>, <<"%", "%25">>,
      <<"&", "%26">>, <<"+", "%2B">>, <<",", "%2C">>, <<"/", "%2F">>,
      <<"=", "%3D">>, <<"?", "%3F">>, <<"[", "%5B">>, <<"]", "%5D">>,
      <<"{", "%7B">>, <<"}", "%7D">>>>

IsEscape(c) == \E i \in 1..Len(EscapeTable) : EscapeTable[i][2] = c
HasEscape(c) == \E i \in 1..Len(EscapeTable) : EscapeTable[i][1] = c
EscapeOf(c) == EscapeTable[CHOOSE i \in 1..Len(EscapeTable) : EscapeTable[i][1] = c][2]
Unescaped(c) == EscapeTable[CHOOSE i \in 1..Len(EscapeTable) : EscapeTable[i][2] = c][1]

\* url.shouldEscape(c, mode): atoms and "_" are unreserved and never escaped
ShouldEscape(c, mode) ==
    /\ HasEscape(c)
    /\ CASE mode = "path"  -> c \notin {"&", "+", ",", "/", "="}
         [] mode = "query" -> TRUE
         [] mode = "host"  -> c \notin {"&", "+", ",", "=", "[", "]", "\""}
         [] OTHER          -> c \notin {"&", "+", ",", "/", "=", "?"}

\* url.escape(s, mode)
RECURSIVE Escape(_, _)
Escape(s, mode) ==
    IF s = <<>> THEN <<>>
    ELSE LET c == Head(s)
             e == IF mode = "query" /\ c = " " THEN "+"
                  ELSE IF ShouldEscape(c, mode) THEN EscapeOf(c)
                  ELSE c
         IN  <<e>> \o Escape(Tail(s), mode)

\* url.unescape(s, mode) fails on a "%" that starts no escape, and in a host on
\* a character that would have to be escaped
UnescapeFails(s, mode) ==
    \E i \in 1..Len(s) :
        \/ s[i] = "%"
        \/ mode = "host" /\ ShouldEscape(s[i], "host")

RECURSIVE Unescape(_, _)
Unescape(s, mode) ==
    IF s = <<>> THEN <<>>
    ELSE LET c == Head(s)
             d == IF IsEscape(c) THEN Unescaped(c)
                  ELSE IF mode = "query" /\ c = "+" THEN " "
                  ELSE c
         IN  <<d>> \o Unescape(Tail(s), mode)

\* url.validEncoded(s, mode)
ValidEncoded(s, mode) ==
    \A i \in 1..Len(s) :
        \/ s[i] \in {"&", "+", ",", "=", "[", "]", "%"}
        \/ IsEscape(s[i])
        \/ ~ShouldEscape(s[i], mode)

Schemes == {"http:", "https:"}

NilURL ==
    [Scheme |-> <<>>, Opaque |-> <<>>, Host |-> <<>>, Path |-> <<>>, RawPath |-> <<>>,
     ForceQuery |-> FALSE, RawQuery |-> <<>>, Fragment |-> <<>>]

\* The end of url.parse: the authority and the path are known.
ParseHost(fragment, scheme, force, rawq, host, p) ==
    IF UnescapeFails(host, "host") \/ UnescapeFails(p, "path")
    THEN [err |-> TRUE, url |-> NilURL]
    ELSE [err |-> FALSE,
          url |-> [Scheme |-> scheme, Opaque |-> <<>>, Host |-> host,
                   Path |-> Unescape(p, "path"),
                   RawPath |-> IF Escape(Unescape(p, "path"), "path") = p THEN <<>> ELSE p,
                   ForceQuery |-> force, RawQuery |-> rawq, Fragment |-> fragment]]

\* url.parse: rest starts with an authority ("//" but, without a scheme, not "///")
HasAuthority(scheme, rest) ==
    /\ Len(rest) >= 2 /\ rest[1] = "/" /\ rest[2] = "/"
    /\ scheme # <<>> \/ ~(Len(rest) >= 3 /\ rest[3] = "/")

\* The authority of "//host/path": the text between "//" and the next "/".
AuthorityOf(scheme, rest) ==
    IF HasAuthority(scheme, rest) THEN Cut(SubSeq(rest, 3, Len(rest)), "/").before ELSE <<>>

\* The path after the authority, from its "/" on.
PathOf(scheme, rest) ==
    IF ~HasAuthority(scheme, rest) THEN rest
    ELSE IF Contains(SubSeq(rest, 3, Len(rest)), "/")
    THEN <<"/">> \o Cut(SubSeq(rest, 3, Len(rest)), "/").after
    ELSE <<>>

\* url.parse after the scheme and the query are cut off: rest is opaque, or
\* starts with an authority, or is a path.
ParseRest(fragment, scheme, force, rawq, rest) ==
    IF rest # <<>> /\ Head(rest) # "/" /\ scheme # <<>>
    THEN [err |-> FALSE,
          url |-> [NilURL EXCEPT !.Scheme = scheme, !.Opaque = rest, !.ForceQuery = force,
                                 !.RawQuery = rawq, !.Fragment = fragment]]
    ELSE ParseHost(fragment, scheme, force, rawq, AuthorityOf(scheme, rest),
                   PathOf(scheme, rest))

\* url.parse after the scheme is cut off: a lone trailing "?" forces an empty
\* query, else the query is what follows the first "?".
ForcesQuery(s) == s # <<>> /\ s[Len(s)] = "?" /\ IndexFrom(s, "?", 1) = Len(s)

ParseQueryPart(fragment, scheme, s) ==
    ParseRest(fragment, scheme, ForcesQuery(s),
              IF ForcesQuery(s) THEN <<>> ELSE Cut(s, "?").after,
              IF ForcesQuery(s) THEN SubSeq(s, 1, Len(s) - 1) ELSE Cut(s, "?").before)

\* url.getScheme
HasScheme(s) == s # <<>> /\ Head(s) \in Schemes

ParseScheme(fragment, s) ==
    ParseQueryPart(fragment, IF HasScheme(s) THEN <<Head(s)>> ELSE <<>>,
                   IF HasScheme(s) THEN Tail(s) ELSE s)

\* url.Parse(rawURL): [err, url]; the fragment is cut off and unescaped first
ParseFragment(frag) ==
    IF UnescapeFails(frag.after, "fragment") THEN [err |-> TRUE, url |-> NilURL]
    ELSE ParseScheme(Unescape(frag.after, "fragment"), frag.before)

Parse(rawURL) == ParseFragment(Cut(rawURL, "#"))

\* (*URL).EscapedPath()
EscapedPath(u) ==
    IF /\ u.RawPath # <<>>
       /\ ValidEncoded(u.RawPath, "path")
       /\ ~UnescapeFails(u.RawPath, "path")
       /\ Unescape(u.RawPath, "path") = u.Path
    THEN u.RawPath
    ELSE Escape(u.Path, "path")

\* (*URL).String()
String(u) ==
    u.Scheme
    \o (IF u.Opaque # <<>> THEN u.Opaque
        ELSE (IF u.Scheme # <<>> \/ u.Host # <<>> THEN <<"/", "/">> \o Escape(u.Host, "host")
              ELSE <<>>)
             \o (IF u.Path # <<>> /\ Head(u.Path) # "/" /\ u.Host # <<>> THEN <<"/">> ELSE <<>>)
             \o EscapedPath(u))
    \o (IF u.ForceQuery \/ u.RawQuery # <<>> THEN <<"?">> \o u.RawQuery ELSE <<>>)
    \o (IF u.Fragment # <<>> THEN <<"#">> \o Escape(u.Fragment, "fragment") ELSE <<>>)

\* url.Values: a function from key to the sequence of its values.
ValuesAdd(v, key, value) ==
    [k \in DOMAIN v \cup {key} |->
        IF k = key THEN (IF key \in DOMAIN v THEN v[key] ELSE <<>>) \o <<value>>
        ELSE v[k]]

\* url.Values.Set as it would be if it appended like url.Values.Add.
ValuesSetAppending(v, key, value) == ValuesAdd(v, key, value)

\* url.Values.Set(key, value)
ValuesSet(v, key, value) ==
    [k \in DOMAIN v \cup {key} |-> IF k = key THEN <<value>> ELSE v[k]]

EmptyValues == [k \in {} |-> <<>>]

\* url.ParseQuery(query), its error dropped as (*URL).Query() drops it
RECURSIVE ParseQueryPairs(_, _)
ParseQueryPairs(m, pairs) ==
    IF pairs = <<>> THEN m
    ELSE LET kv == Cut(Head(pairs), "=")
             skip == \/ Head(pairs) = <<>>
                     \/ UnescapeFails(kv.before, "query")
                     \/ UnescapeFails(kv.after, "query")
         IN  IF skip THEN ParseQueryPairs(m, Tail(pairs))
             ELSE ParseQueryPairs(
                      ValuesAdd(m, Unescape(kv.before, "query"), Unescape(kv.after, "query")),
                      Tail(pairs))

\* (*URL).Query()
Query(u) == ParseQueryPairs(EmptyValues, Split(u.RawQuery, "&"))

\* url.Values.Encode(): sorted by key, key=value joined by "&"
RECURSIVE EncodeValuesOf(_, _)
EncodeValuesOf(ek, vs) ==
    IF vs = <<>> THEN <<>>
    ELSE <<ek \o <<"=">> \o Escape(Head(vs), "query")>> \o EncodeValuesOf(ek, Tail(vs))

RECURSIVE EncodeKeys(_, _)
EncodeKeys(v, keys) ==
    IF keys = <<>> THEN <<>>
    ELSE EncodeValuesOf(Escape(Head(keys), "query"), v[Head(keys)])
         \o EncodeKeys(v, Tail(keys))

RECURSIVE Join(_, _)
Join(ss, sep) ==
    IF ss = <<>> THEN <<>>
    ELSE IF Len(ss) = 1 THEN Head(ss)
    ELSE Head(ss) \o <<sep>> \o Join(Tail(ss), sep)

Encode(v) == Join(EncodeKeys(v, SortStrings(DOMAIN v)), "&")

-----------------------------------------------------------------------------
(* The document abstraction: openapi.APISpec, PathItem, Operation,        *)
(* Parameter, RequestBody, Schema                                          *)

\* An optional value is a sequence of length 0 (nil) or 1.
Nil == <<>>
Some(x) == <<x>>

\* A document is a record
\*   [dialect     |-> "2" or "3",
\*    Servers     |-> the server URLs (modern dialect),
\*    Schemes, Host, BasePath |-> (legacy dialect),
\*    Definitions |-> name -> optional schema (legacy dialect),
\*    Paths       |-> path template -> path item]
\* a path item   [Parameters |-> Seq(parameter), Operations |-> method -> operation]
\* an operation  [OperationID, Summary |-> strings, Parameters |-> Seq(parameter),
\*                RequestBody |-> optional request body (modern dialect)]
\* a parameter   [Name |-> string, In |-> string, Required |-> BOOLEAN,
\*                Schema |-> optional (schema reference)]
\* a schema ref  [Ref |-> string, Value |-> optional schema]
\* a schema      [Type |-> string, Properties |-> name -> schema ref,
\*                Required |-> Seq(name), Default |-> optional value]
\* a request body (modern) [Value |-> optional [Content |-> optional
\*                              (media type -> [Schema |-> optional schema ref])]]

\* (*OpenAPI3Spec).GetBaseURL
GetBaseURL3(doc) ==
    IF Len(doc.Servers) > 0 /\ doc.Servers[1] # <<>> THEN doc.Servers[1]
    ELSE <<"http:", "/", "/", "localhost:8080">>

\* (*OpenAPI2Spec).GetBaseURL
GetBaseURL2(doc) ==
    LET scheme == IF Len(doc.Schemes) > 0 THEN doc.Schemes[1] ELSE <<"http:">>
        host   == IF doc.Host = <<>> THEN <<"localhost:8080">> ELSE doc.Host
    IN  scheme \o <<"/", "/">> \o host \o doc.BasePath

GetBaseURL(doc) == IF doc.dialect = "3" THEN GetBaseURL3(doc) ELSE GetBaseURL2(doc)

\* The methods GetOperations looks at, per dialect.
Methods2 == {<<"get">>, <<"post">>, <<"put">>, <<"delete">>, <<"patch">>, <<"head">>,
             <<"options">>}
\* The modern dialect's methods as they would be if trace were left out.
MethodsWithoutTrace == Methods2 \ {<<"trace">>}
Methods3 == Methods2 \cup {<<"trace">>}

\* PathItem.GetOperations(): the methods the path item defines
GetOperations(doc, path) ==
    LET item == doc.Paths[path]
        ms   == IF doc.dialect = "3" THEN Methods3 ELSE Methods2
    IN  [m \in (DOMAIN item.Operations) \cap ms |-> item.Operations[m]]

\* GetParameters as it would be if an operation-level parameter replaced the
\* path-level parameters of its name.
GetParametersOverriding(doc, path, method) ==
    LET own == doc.Paths[path].Operations[method].Parameters
    IN  SelectSeq(doc.Paths[path].Parameters,
                  LAMBDA q : \A k \in 1..Len(own) : own[k].Name # q.Name) \o own

\* Operation.GetParameters(): path-level parameters, then operation-level ones.
\* The modern dialect drops a parameter reference without a value; the model
\* holds only parameters with a value.
GetParameters(doc, path, method) ==
    doc.Paths[path].Parameters \o doc.Paths[path].Operations[method].Parameters

\* The first parameter of a list whose location is "body", if any.
RECURSIVE FirstBodyParam(_)
FirstBodyParam(params) ==
    IF params = <<>> THEN Nil
    ELSE IF Head(params).In = "body" THEN Some(Head(params))
    ELSE FirstBodyParam(Tail(params))

\* (*OpenAPI2OperationWithPath).GetRequestBody: the operation's body parameter,
\* else the path item's
GetRequestBody2(doc, path, method) ==
    LET own == FirstBodyParam(doc.Paths[path].Operations[method].Parameters)
    IN  IF own # Nil THEN own ELSE FirstBodyParam(doc.Paths[path].Parameters)

\* (*OpenAPI3OperationWithPath).GetRequestBody
GetRequestBody3(doc, path, method) == doc.Paths[path].Operations[method].RequestBody

\* Operation.GetRequestBody(): Nil when the operation has no request body
GetRequestBody(doc, path, method) ==
    IF doc.dialect = "3" THEN GetRequestBody3(doc, path, method)
    ELSE GetRequestBody2(doc, path, method)

\* (*OpenAPI2RequestBody).GetJSONSchema as it would be if a reference that does
\* not resolve gave no schema instead of an error.
GetJSONSchema2Lenient(doc, param) ==
    IF param.Schema = Nil THEN [err |-> <<>>, schema |-> Nil]
    ELSE LET ref == param.Schema[1]
         IN  IF ref.Ref # <<>> /\ ref.Value = Nil
             THEN LET name == IF Len(ref.Ref) > 0 /\ Head(ref.Ref) = "#/definitions/"
                              THEN Tail(ref.Ref) ELSE ref.Ref
                  IN  IF name \in DOMAIN doc.Definitions /\ doc.Definitions[name] # Nil
                      THEN [err |-> <<>>, schema |-> doc.Definitions[name]]
                      ELSE [err |-> <<>>, schema |-> Nil]
             ELSE [err |-> <<>>, schema |-> ref.Value]

\* (*OpenAPI2RequestBody).GetJSONSchema: [err, schema]
GetJSONSchema2(doc, param) ==
    IF param.Schema = Nil THEN [err |-> <<>>, schema |-> Nil]
    ELSE LET ref == param.Schema[1]
         IN  IF ref.Ref # <<>> /\ ref.Value = Nil
             THEN LET name == IF Len(ref.Ref) > 0 /\ Head(ref.Ref) = "#/definitions/"
                              THEN Tail(ref.Ref) ELSE ref.Ref
                  IN  IF name \in DOMAIN doc.Definitions /\ doc.Definitions[name] # Nil
                      THEN [err |-> <<>>, schema |-> doc.Definitions[name]]
                      ELSE [err |-> <<"could not resolve schema reference: ">> \o ref.Ref,
                            schema |-> Nil]
             ELSE [err |-> <<>>, schema |-> ref.Value]

\* (*OpenAPI3RequestBody).GetJSONSchema: [err, schema]
GetJSONSchema3(body) ==
    IF body.Value = Nil \/ body.Value[1].Content = Nil
    THEN [err |-> <<>>, schema |-> Nil]
    ELSE LET content == body.Value[1].Content[1]
         IN  IF "application/json" \notin DOMAIN content
             THEN [err |-> <<"no application/json content-type found for request body">>,
                   schema |-> Nil]
             ELSE LET mt == content["application/json"]
                  IN  IF mt.Schema # Nil /\ mt.Schema[1].Value # Nil
                      THEN [err |-> <<>>, schema |-> mt.Schema[1].Value]
                      ELSE [err |-> <<>>, schema |-> Nil]

\* RequestBody.GetJSONSchema() of the request body rb (a one-element option)
GetJSONSchema(doc, rb) ==
    IF doc.dialect = "3" THEN GetJSONSchema3(rb[1]) ELSE GetJSONSchema2(doc, rb[1])

\* Schema.GetProperties(): the properties whose reference has a value
GetProperties(schema) ==
    [p \in {q \in DOMAIN schema.Properties : schema.Properties[q].Value # Nil} |->
        schema.Properties[p].Value[1]]

-----------------------------------------------------------------------------
(* Input schema generation (pkg/openapi) *)

\* convertSchemaToJSONSchema: type, default, required and the converted properties
RECURSIVE convertSchemaToJSONSchema(_)
convertSchemaToJSONSchema(schema) ==
    LET props == GetProperties(schema)
    IN  [Type        |-> schema.Type,
         Description |-> <<>>,
         Default     |-> schema.Default,
         Properties  |-> [p \in DOMAIN props |-> convertSchemaToJSONSchema(props[p])],
         Required    |-> schema.Required]

\* Parameter.GetSchema(): the parameter's schema when its reference has a value
GetSchema(param) ==
    IF param.Schema # Nil /\ param.Schema[1].Value # Nil THEN param.Schema[1].Value ELSE Nil

\* convertParameterToJSONSchemaFromInterface panics where it slices the first
\* character off an empty location to build the default description
ParameterPanics(param) == param.Description = <<>> /\ param.In = ""

\* strings.ToUpper(in[:1]) + in[1:]
Title(in) ==
    CASE in = "path"   -> "Path"
      [] in = "query"  -> "Query"
      [] in = "header" -> "Header"
      [] in = "cookie" -> "Cookie"
      [] OTHER         -> in

convertParameterToJSONSchemaFromInterface(param) ==
    IF GetSchema(param) # Nil THEN convertSchemaToJSONSchema(GetSchema(param)[1])
    ELSE [Type        |-> IF param.Type = "" THEN "string" ELSE param.Type,
          Description |-> IF param.Description = <<>>
                          THEN <<Title(param.In), " parameter: ">> \o param.Name
                          ELSE param.Description,
          Default     |-> Nil,
          Properties  |-> [p \in {} |-> Nil],
          Required    |-> <<>>]

\* The loop over the parameters as it would be if it did not skip the
\* parameters located in the body.
RECURSIVE AddParametersWithBody(_, _)
AddParametersWithBody(schema, params) ==
    IF params = <<>> THEN schema
    ELSE LET param == Head(params)
             next  == [schema EXCEPT
                         !.Properties =
                             [n \in DOMAIN schema.Properties \cup {param.Name} |->
                                 IF n = param.Name
                                 THEN convertParameterToJSONSchemaFromInterface(param)
                                 ELSE schema.Properties[n]],
                         !.Required = IF param.Required THEN @ \o <<param.Name>> ELSE @]
         IN  AddParametersWithBody(next, Tail(params))

\* The loop over the parameters as it would be if it listed a required name
\* once.
RECURSIVE AddParametersOnce(_, _)
AddParametersOnce(schema, params) ==
    IF params = <<>> THEN schema
    ELSE LET param == Head(params)
             next  == IF param.In = "body" THEN schema
                      ELSE [schema EXCEPT
                              !.Properties =
                                  [n \in DOMAIN schema.Properties \cup {param.Name} |->
                                      IF n = param.Name
                                      THEN convertParameterToJSONSchemaFromInterface(param)
                                      ELSE schema.Properties[n]],
                              !.Required =
                                  IF param.Required
                                     /\ \A k \in 1..Len(@) : @[k] # param.Name
                                  THEN @ \o <<param.Name>> ELSE @]
         IN  AddParametersOnce(next, Tail(params))

\* The loop of generateInputSchemaFromInterface over the parameters.
RECURSIVE AddParameters(_, _)
AddParameters(schema, params) ==
    IF params = <<>> THEN schema
    ELSE LET param == Head(params)
             next  == IF param.In = "body" THEN schema
                      ELSE [schema EXCEPT
                              !.Properties =
                                  [n \in DOMAIN schema.Properties \cup {param.Name} |->
                                      IF n = param.Name
                                      THEN convertParameterToJSONSchemaFromInterface(param)
                                      ELSE schema.Properties[n]],
                              !.Required = IF param.Required THEN @ \o <<param.Name>> ELSE @]
         IN  AddParameters(next, Tail(params))

EmptyObjectSchema ==
    [Type |-> "object", Description |-> <<>>, Default |-> Nil,
     Properties |-> [p \in {} |-> Nil], Required |-> <<>>]

\* generateInputSchemaFromInterface as it would be if it left out a request
\* body whose schema does not resolve instead of returning the error.
generateInputSchemaSkippingBody(doc, path, method) ==
    [panic |-> FALSE, err |-> <<>>,
     schema |-> AddParameters(EmptyObjectSchema, GetParameters(doc, path, method))]

\* generateInputSchemaFromInterface(operation): [panic, err, schema]
generateInputSchemaFromInterface(doc, path, method) ==
    LET params == GetParameters(doc, path, method)
        rb     == GetRequestBody(doc, path, method)
        base   == AddParameters(EmptyObjectSchema, params)
        got    == GetJSONSchema(doc, rb)
    IN  IF \E i \in 1..Len(params) : params[i].In # "body" /\ ParameterPanics(params[i])
        THEN [panic |-> TRUE, err |-> <<>>, schema |-> EmptyObjectSchema]
        ELSE IF rb = Nil
        THEN [panic |-> FALSE, err |-> <<>>, schema |-> base]
        ELSE IF got.err # <<>>
        THEN [panic |-> FALSE,
              err |-> <<"failed to convert request body to schema: ">> \o got.err,
              schema |-> EmptyObjectSchema]
        ELSE IF got.schema = Nil
        THEN [panic |-> FALSE, err |-> <<>>, schema |-> base]
        ELSE LET body == convertSchemaToJSONSchema(got.schema[1])
             IN  [panic |-> FALSE, err |-> <<>>,
                  schema |-> [base EXCEPT
                     !.Properties =
                         [n \in DOMAIN base.Properties \cup DOMAIN body.Properties |->
                             IF n \in DOMAIN body.Properties THEN body.Properties[n]
                             ELSE base.Properties[n]],
                     !.Required = @ \o body.Required]]

-----------------------------------------------------------------------------
(* Tool compilation (pkg/mcp) *)

\* generateToolName as it would be without the trimming of "_".
generateToolNameUntrimmed(method, path, operationID) ==
    IF operationID # <<>> THEN operationID
    ELSE method \o <<"_">>
         \o ReplaceAll(ReplaceAll(ReplaceAll(path, "/", <<"_">>), "{", <<>>), "}", <<>>)

\* generateToolName(method, path, operationID)
generateToolName(method, path, operationID) ==
    IF operationID # <<>> THEN operationID
    ELSE LET cleanPath == Trim(ReplaceAll(ReplaceAll(ReplaceAll(path, "/", <<"_">>),
                                                     "{", <<>>),
                                          "}", <<>>),
                               "_")
         IN  IF cleanPath = <<>> THEN method
             ELSE method \o <<"_">> \o cleanPath

\* The descriptor GetToolsFromSpec appends for one operation.
EnrichedTool(doc, path, method, inputSchema) ==
    LET operation == doc.Paths[path].Operations[method]
    IN  [Name        |-> generateToolName(method, path, operation.OperationID),
         Description |-> IF operation.Summary = <<>>
                         THEN ToUpper(method) \o <<" ">> \o path
                         ELSE operation.Summary,
         InputSchema |-> inputSchema,
         BaseUrl     |-> GetBaseURL(doc),
         Method      |-> method,
         Path        |-> path]

\* mcp.AddTool: the server keeps one tool per name
AddTool(srv, tool) ==
    [n \in DOMAIN srv \cup {tool.Name} |-> IF n = tool.Name THEN tool ELSE srv[n]]

RECURSIVE AddTools(_, _)
AddTools(srv, ts) ==
    IF ts = <<>> THEN srv ELSE AddTools(AddTool(srv, Head(ts)), Tail(ts))

-----------------------------------------------------------------------------
(* The call handler (pkg/mcp): request building *)

\* The regular expression \{([^}]+)\} at position i of path: the position of
\* the closing brace of the match that starts at i, or 0 when none starts there.
MatchEnd(path, i) ==
    IF path[i] # "{" THEN 0
    ELSE LET j == IndexFrom(path, "}", i + 1)
         IN  IF j >= i + 2 THEN j ELSE 0

\* pathParamRegex.ReplaceAllStringFunc(path, ...) from position i on:
\* [out |-> the rewritten text, missing |-> the names appended to missingParams]
RECURSIVE ReplaceParams(_, _, _)
ReplaceParams(path, input, i) ==
    IF i > Len(path) THEN [out |-> <<>>, missing |-> <<>>]
    ELSE LET j == MatchEnd(path, i)
         IN  IF j = 0
             THEN LET rest == ReplaceParams(path, input, i + 1)
                  IN  [out |-> <<path[i]>> \o rest.out, missing |-> rest.missing]
             ELSE LET paramName == SubSeq(path, i + 1, j - 1)
                      rest      == ReplaceParams(path, input, j + 1)
                  IN  IF paramName \in DOMAIN input
                      THEN [out |-> Sprintf(input[paramName]) \o rest.out,
                            missing |-> rest.missing]
                      ELSE [out |-> SubSeq(path, i, j) \o rest.out,
                            missing |-> <<paramName>> \o rest.missing]

\* buildURL as it would be if it reported the first missing parameter only.
buildURLFirstMissing(baseURL, path, input) ==
    IF Len(ReplaceParams(path, input, 1).missing) > 0
    THEN [err |-> <<"missing required path parameters: ", "[">>
                  \o ReplaceParams(path, input, 1).missing[1] \o <<"]">>,
          missing |-> <<ReplaceParams(path, input, 1).missing[1]>>, url |-> NilURL]
    ELSE [err |-> IF Parse(TrimSuffix(baseURL, "/") \o ReplaceParams(path, input, 1).out).err
                  THEN <<"parse: invalid URL">> ELSE <<>>,
          missing |-> <<>>,
          url |-> Parse(TrimSuffix(baseURL, "/") \o ReplaceParams(path, input, 1).out).url]

\* buildURL(baseURL, path, input): [err, missing, url]
buildURL(baseURL, path, input) ==
    LET r == ReplaceParams(path, input, 1)
    IN  IF Len(r.missing) > 0
        THEN [err |-> <<"missing required path parameters: ", "[">>
                      \o Join(r.missing, " ") \o <<"]">>,
              missing |-> r.missing, url |-> NilURL]
        ELSE LET parsed == Parse(TrimSuffix(baseURL, "/") \o r.out)
             IN  [err |-> IF parsed.err THEN <<"parse: invalid URL">> ELSE <<>>,
                  missing |-> <<>>, url |-> parsed.url]

\* The loop of addQueryParams over the declared parameters.
RECURSIVE SetQueryParams(_, _, _)
SetQueryParams(query, params, input) ==
    IF params = <<>> THEN query
    ELSE LET param == Head(params)
             next  == IF param.In = "query" /\ param.Name \in DOMAIN input
                      THEN ValuesSet(query, param.Name, Sprintf(input[param.Name]))
                      ELSE query
         IN  SetQueryParams(next, Tail(params), input)

\* addQueryParams(fullURL, operation, input): the URL with its RawQuery rewritten
addQueryParams(fullURL, params, input) ==
    [fullURL EXCEPT !.RawQuery = Encode(SetQueryParams(Query(fullURL), params, input))]

\* extractFieldsFromSchema as it would be if a declared default won over the
\* input's value.
extractFieldsDefaultFirst(schema, input) ==
    IF schema = Nil \/ schema[1].Type # "object" THEN [p \in {} |-> NullValue]
    ELSE [p \in {q \in DOMAIN GetProperties(schema[1]) :
                     q \in DOMAIN input \/ GetProperties(schema[1])[q].Default # Nil} |->
             IF GetProperties(schema[1])[p].Default # Nil
             THEN GetProperties(schema[1])[p].Default[1]
             ELSE input[p]]

\* extractFieldsFromSchema(target, schema, input) on an empty target
extractFieldsFromSchema(schema, input) ==
    IF schema = Nil \/ schema[1].Type # "object" THEN [p \in {} |-> NullValue]
    ELSE LET props == GetProperties(schema[1])
         IN  [p \in {q \in DOMAIN props : q \in DOMAIN input \/ props[q].Default # Nil} |->
                 IF p \in DOMAIN input THEN input[p] ELSE props[p].Default[1]]

\* buildRequestBody(operation, input): [err, body]; a nil body is the empty text
buildRequestBody(doc, path, method, input) ==
    LET rb == GetRequestBody(doc, path, method)
    IN  IF rb = Nil THEN [err |-> <<>>, body |-> <<>>]
        ELSE LET got == GetJSONSchema(doc, rb)
             IN  IF got.err # <<>> THEN [err |-> got.err, body |-> <<>>]
                 ELSE IF got.schema = Nil THEN [err |-> <<>>, body |-> <<>>]
                 ELSE [err |-> <<>>,
                       body |-> Marshal(extractFieldsFromSchema(got.schema, input))]

\* hasRequestBody(operation)
hasRequestBody(doc, path, method) == GetRequestBody(doc, path, method) # Nil

\* textproto.CanonicalMIMEHeaderKey on the header names of the model
CanonicalHeaderKey(name) ==
    CASE name = <<"content-type">>  -> <<"Content-Type">>
      [] name = <<"authorization">> -> <<"Authorization">>
      [] name = <<"x-key">>         -> <<"X-Key">>
      [] name = <<"limit">>         -> <<"Limit">>
      [] name = <<"status">>        -> <<"Status">>
      [] name = <<"id">>            -> <<"Id">>
      [] name = <<"name">>          -> <<"Name">>
      [] OTHER                      -> name

\* http.Header.Set and http.Header.Add
HeaderSet(h, name, value) == ValuesSet(h, CanonicalHeaderKey(name), value)
HeaderAdd(h, name, value) == ValuesAdd(h, CanonicalHeaderKey(name), value)
\* http.Header.Get: the first value of the name, "" when it has none
HeaderGet(h, name) ==
    LET k == CanonicalHeaderKey(name)
    IN  IF k \in DOMAIN h /\ Len(h[k]) > 0 THEN h[k][1] ELSE <<>>

\* parseHeaders(headerStrings) of the serve command: every "key=value" is cut
\* at its first "=", trimmed and added: [err, headers]
RECURSIVE parseHeaders(_)
parseHeaders(headerStrings) ==
    IF headerStrings = <<>> THEN [err |-> <<>>, headers |-> EmptyValues]
    ELSE LET h     == headerStrings[Len(headerStrings)]
             parts == Cut(h, "=")
             front == parseHeaders(SubSeq(headerStrings, 1, Len(headerStrings) - 1))
         IN  IF front.err # <<>> THEN front
             ELSE IF ~parts.found
             THEN [err |-> <<"invalid header format: ">> \o h, headers |-> EmptyValues]
             ELSE [err |-> <<>>,
                   headers |-> HeaderAdd(front.headers, Trim(parts.before, " "),
                                         Flatten(<<Trim(parts.after, " ")>>))]

\* The loop of setHeaders over the declared parameters.
RECURSIVE SetHeaderParams(_, _, _)
SetHeaderParams(header, params, input) ==
    IF params = <<>> THEN header
    ELSE LET param == Head(params)
             next  == IF param.In = "header" /\ param.Name \in DOMAIN input
                      THEN HeaderSet(header, param.Name, Sprintf(input[param.Name]))
                      ELSE header
         IN  SetHeaderParams(next, Tail(params), input)

\* The loop of setHeaders over the keys of additionalHeaders (in sorted order
\* here: the keys are distinct, so the order of a Go map makes no difference).
RECURSIVE AddAdditional(_, _, _)
AddAdditional(header, keys, additional) ==
    IF keys = <<>> THEN header
    ELSE AddAdditional(HeaderAdd(header, Head(keys), HeaderGet(additional, Head(keys))),
                       Tail(keys), additional)

\* setHeaders(req, operation, input, additionalHeaders): the request's header
setHeaders(header, hasBody, params, input, additional) ==
    LET h0 == IF hasBody THEN HeaderSet(header, <<"Content-Type">>, <<"application/json">>)
              ELSE header
        h1 == SetHeaderParams(h0, params, input)
    IN  AddAdditional(h1, SortStrings(DOMAIN additional), additional)

\* The methods net/http accepts (validMethod).
ValidMethods == {<<"GET">>, <<"POST">>, <<"PUT">>, <<"DELETE">>, <<"PATCH">>, <<"HEAD">>,
                 <<"OPTIONS">>, <<"TRACE">>}

\* The contexts a request can be bound to: the one the handler was called
\* with, which ends when its invocation is cancelled, and the one that never
\* ends.
HandlerContext == "ctx"
BackgroundContext == "context.Background()"

NilRequest ==
    [Ctx |-> BackgroundContext, Method |-> <<>>, URL |-> <<>>, Header |-> EmptyValues,
     Body |-> <<>>]

\* The request as it would be made by http.NewRequest, which binds it to the
\* background context.
NewRequestDetached(ctx, method, url, body) ==
    IF method \notin ValidMethods
    THEN [err |-> <<"net/http: invalid method">>, req |-> NilRequest]
    ELSE IF Parse(url).err
    THEN [err |-> <<"parse: invalid URL">>, req |-> NilRequest]
    ELSE [err |-> <<>>,
          req |-> [Ctx |-> BackgroundContext, Method |-> method,
                   URL |-> String(Parse(url).url), Header |-> EmptyValues, Body |-> body]]

\* http.NewRequestWithContext(ctx, method, url, body): [err, req]
NewRequestWithContext(ctx, method, url, body) ==
    IF method \notin ValidMethods
    THEN [err |-> <<"net/http: invalid method">>, req |-> NilRequest]
    ELSE IF Parse(url).err
    THEN [err |-> <<"parse: invalid URL">>, req |-> NilRequest]
    ELSE [err |-> <<>>,
          req |-> [Ctx |-> ctx, Method |-> method, URL |-> String(Parse(url).url),
                   Header |-> EmptyValues, Body |-> body]]

NilOutput == [StatusCode |-> 0, Body |-> Nil, Headers |-> Nil, Error |-> <<>>]

\* The error result as it would be if it carried a status code of its own.
ErrorOutputWithStatus(prefix, err) ==
    [NilOutput EXCEPT !.StatusCode = 500, !.Error = <<prefix>> \o err]

\* APIToolOutput{Error: fmt.Sprintf(prefix + "%v", err)}
ErrorOutput(prefix, err) == [NilOutput EXCEPT !.Error = <<prefix>> \o err]

\* The handler of createAPIHandlerForTool up to the call of client.Do:
\* [failed, output (the error result), fullURL, req (the request to dispatch)]
PrepareRequest(doc, tool, input, additional) ==
    LET params  == GetParameters(doc, tool.Path, tool.Method)
        built   == buildURL(tool.BaseUrl, tool.Path, input)
        fullURL == addQueryParams(built.url, params, input)
        hasBody == hasRequestBody(doc, tool.Path, tool.Method)
        body    == buildRequestBody(doc, tool.Path, tool.Method, input)
        made    == NewRequestWithContext(HandlerContext, ToUpper(tool.Method),
                                         String(fullURL), body.body)
        fail(o) == [failed |-> TRUE, output |-> o, fullURL |-> NilURL, req |-> NilRequest]
    IN  IF built.err # <<>>
        THEN fail(ErrorOutput("Failed to build URL: ", built.err))
        ELSE IF hasBody /\ body.err # <<>>
        THEN fail(ErrorOutput("Failed to build request body: ", body.err))
        ELSE IF made.err # <<>>
        THEN fail(ErrorOutput("Failed to create request: ", made.err))
        ELSE [failed |-> FALSE, output |-> NilOutput, fullURL |-> fullURL,
              req |-> [made.req EXCEPT
                          !.Header = setHeaders(@, hasBody, params, input, additional)]]

-----------------------------------------------------------------------------
(* The call handler: response normalisation *)

\* encoding/json on the texts of the model: a number is a run of digit tokens,
\* "n" is null, "true" a literal, a string is the tokens between two quotes, an
\* array is "[" value "," ... "]", an object "{" string ":" value "," ... "}",
\* " " is white space; every other token starts no JSON value.
Digits == {"1", "7", "10", "123"}
Literals == {"n", "true"}

RECURSIVE SkipSpace(_, _)
SkipSpace(s, i) == IF i <= Len(s) /\ s[i] = " " THEN SkipSpace(s, i + 1) ELSE i

RECURSIVE DigitsEnd(_, _)
DigitsEnd(s, i) == IF i <= Len(s) /\ s[i] \in Digits THEN DigitsEnd(s, i + 1) ELSE i

\* What the scanner answers where no value is.
NoValue(i) == [ok |-> FALSE, end |-> i, val |-> <<>>]

\* The scanner on the string that starts at position i of s.
ScanString(s, i) ==
    IF i > Len(s) \/ s[i] # "\"" \/ IndexFrom(s, "\"", i + 1) = 0 THEN NoValue(i)
    ELSE [ok |-> TRUE, end |-> IndexFrom(s, "\"", i + 1) + 1,
          val |-> SubSeq(s, i, IndexFrom(s, "\"", i + 1))]

\* The scanner on the value that starts at position i of s (no white space at
\* i): [ok, end |-> the position after the value, val |-> its text without
\* the white space between its parts].  ScanElements scans the rest of an
\* array from an element on, ScanMembers the rest of an object from a key on.
RECURSIVE ScanValue(_, _), ScanElements(_, _), ScanMembers(_, _)
ScanValue(s, i) ==
    IF i > Len(s) THEN NoValue(i)
    ELSE IF s[i] \in Digits
    THEN [ok |-> TRUE, end |-> DigitsEnd(s, i), val |-> SubSeq(s, i, DigitsEnd(s, i) - 1)]
    ELSE IF s[i] \in Literals
    THEN [ok |-> TRUE, end |-> i + 1, val |-> <<s[i]>>]
    ELSE IF s[i] = "\"" THEN ScanString(s, i)
    ELSE IF s[i] \in {"[", "{"}
    THEN LET k == SkipSpace(s, i + 1)
             close == IF s[i] = "[" THEN "]" ELSE "}"
         IN  IF k <= Len(s) /\ s[k] = close
             THEN [ok |-> TRUE, end |-> k + 1, val |-> <<s[i], close>>]
             ELSE LET r == IF s[i] = "[" THEN ScanElements(s, k) ELSE ScanMembers(s, k)
                  IN  IF r.ok THEN [r EXCEPT !.val = <<s[i]>> \o @] ELSE NoValue(i)
    ELSE NoValue(i)

ScanElements(s, k) ==
    LET v   == ScanValue(s, k)
        k2  == SkipSpace(s, v.end)
    IN  IF ~v.ok \/ k2 > Len(s) THEN NoValue(k)
        ELSE IF s[k2] = "]" THEN [ok |-> TRUE, end |-> k2 + 1, val |-> v.val \o <<"]">>]
        ELSE IF s[k2] = ","
        THEN LET r == ScanElements(s, SkipSpace(s, k2 + 1))
             IN  IF r.ok THEN [r EXCEPT !.val = v.val \o <<",">> \o @] ELSE NoValue(k)
        ELSE NoValue(k)

ScanMembers(s, k) ==
    LET key   == ScanString(s, k)
        colon == SkipSpace(s, key.end)
    IN  IF ~key.ok \/ colon > Len(s) \/ s[colon] # ":" THEN NoValue(k)
        ELSE LET v   == ScanValue(s, SkipSpace(s, colon + 1))
                 k2  == SkipSpace(s, v.end)
             IN  IF ~v.ok \/ k2 > Len(s) THEN NoValue(k)
                 ELSE IF s[k2] = "}"
                 THEN [ok |-> TRUE, end |-> k2 + 1,
                       val |-> key.val \o <<":">> \o v.val \o <<"}">>]
                 ELSE IF s[k2] = ","
                 THEN LET r == ScanMembers(s, SkipSpace(s, k2 + 1))
                      IN  IF r.ok
                          THEN [r EXCEPT !.val = key.val \o <<":">> \o v.val \o <<",">> \o @]
                          ELSE NoValue(k)
                 ELSE NoValue(k)

\* json.NewDecoder(body).Decode(&v): the decoder reads the first value of the
\* stream and stops there; [err, value], a decoded null being the nil interface
Decode(body) ==
    LET r == ScanValue(body, SkipSpace(body, 1))
    IN  IF ~r.ok THEN [err |-> TRUE, value |-> Nil]
        ELSE [err |-> FALSE, value |-> IF r.val = <<"n">> THEN Nil ELSE Some(r.val)]

\* parseResponse as it would be if an error status were turned into an error.
parseResponseRaising(resp) ==
    IF resp.StatusCode >= 400
    THEN [StatusCode |-> 0, Body |-> Nil, Headers |-> Nil,
          Error |-> <<"Failed to parse response: ", "error status">>]
    ELSE [StatusCode |-> resp.StatusCode,
          Body       |-> IF Decode(resp.Body).err THEN Nil ELSE Decode(resp.Body).value,
          Headers    |-> Some([k \in {h \in DOMAIN resp.Header : Len(resp.Header[h]) > 0} |->
                                  resp.Header[k][1]]),
          Error      |-> <<>>]

\* parseResponse as it would be if a later value of a header name replaced the
\* earlier one.
parseResponseLastValue(resp) ==
    LET decoded == Decode(resp.Body)
    IN  [StatusCode |-> resp.StatusCode,
         Body       |-> IF decoded.err THEN Nil ELSE decoded.value,
         Headers    |-> Some([k \in {h \in DOMAIN resp.Header : Len(resp.Header[h]) > 0} |->
                                 resp.Header[k][Len(resp.Header[k])]]),
         Error      |-> <<>>]

\* parseResponse(resp)
parseResponse(resp) ==
    LET decoded == Decode(resp.Body)
    IN  [StatusCode |-> resp.StatusCode,
         Body       |-> IF decoded.err THEN Nil ELSE decoded.value,
         Headers    |-> Some([k \in {h \in DOMAIN resp.Header : Len(resp.Header[h]) > 0} |->
                                 resp.Header[k][1]]),
         Error      |-> <<>>]

-----------------------------------------------------------------------------
(* The state machine *)

\* The operations GetToolsFromSpec will visit: every defined (path, method).
OperationsOf(doc) ==
    {pm \in (DOMAIN doc.Paths) \X Methods3 : pm[2] \in DOMAIN GetOperations(doc, pm[1])}

\* The bytes of a source, by what each decoder LoadSpec tries makes of them:
\* whether the modern loader reads them and its result validates, whether they
\* decode as JSON into the legacy document, whether they decode as YAML, the
\* YAML value encodes as JSON and that JSON decodes into the legacy document,
\* the value of their top-level swagger member, and the document they describe.
Source(loads, validates, json, yaml, marshals, redecodes, swagger, content) ==
    [LoadFromData |-> loads, Validate |-> validates, JSONUnmarshal |-> json,
     YAMLUnmarshal |-> yaml, Marshal |-> marshals, ReUnmarshal |-> redecodes,
     Swagger |-> swagger, Content |-> content]

\* No document: what the serve command holds before LoadSpec has returned one.
NoSpec ==
    [dialect |-> "", Servers |-> <<>>, Schemes |-> <<>>, Host |-> <<>>, BasePath |-> <<>>,
     Definitions |-> [n \in {} |-> Nil], Paths |-> [p \in {} |-> Nil]]

UnsupportedOrInvalid == <<"unsupported or invalid OpenAPI specification">>

\* LoadSpec as it would be if a document the modern loader reads were taken
\* for a modern one without validating it.
LoadSpecUnvalidated(bytes) ==
    IF bytes.LoadFromData
    THEN [err |-> <<>>, spec |-> [bytes.Content EXCEPT !.dialect = "3"]]
    ELSE IF bytes.JSONUnmarshal /\ bytes.Swagger # <<>>
    THEN [err |-> <<>>, spec |-> [bytes.Content EXCEPT !.dialect = "2"]]
    ELSE IF ~bytes.YAMLUnmarshal \/ ~bytes.Marshal \/ ~bytes.ReUnmarshal
            \/ bytes.Swagger = <<>>
    THEN [err |-> UnsupportedOrInvalid, spec |-> NoSpec]
    ELSE [err |-> <<>>, spec |-> [bytes.Content EXCEPT !.dialect = "2"]]

\* LoadSpec(data)
LoadSpec(bytes) ==
    IF bytes.LoadFromData /\ bytes.Validate
    THEN [err |-> <<>>, spec |-> [bytes.Content EXCEPT !.dialect = "3"]]
    ELSE IF bytes.JSONUnmarshal /\ bytes.Swagger # <<>>
    THEN [err |-> <<>>, spec |-> [bytes.Content EXCEPT !.dialect = "2"]]
    ELSE IF ~bytes.YAMLUnmarshal THEN [err |-> UnsupportedOrInvalid, spec |-> NoSpec]
    ELSE IF ~bytes.Marshal THEN [err |-> UnsupportedOrInvalid, spec |-> NoSpec]
    ELSE IF ~bytes.ReUnmarshal THEN [err |-> UnsupportedOrInvalid, spec |-> NoSpec]
    ELSE IF bytes.Swagger = <<>> THEN [err |-> UnsupportedOrInvalid, spec |-> NoSpec]
    ELSE [err |-> <<>>, spec |-> [bytes.Content EXCEPT !.dialect = "2"]]

\* The bytes of a well-formed JSON encoding of a document of either dialect: the
\* modern loader reads any JSON object, and only a modern document validates.
Encoded(doc) ==
    Source(TRUE, doc.dialect = "3", TRUE, TRUE, TRUE, TRUE,
           IF doc.dialect = "3" THEN <<>> ELSE <<"2.0">>, doc)

\* A handler invocation: its position, its input, whether its context has been
\* cancelled, the name of the tool called, the handler's locals fullURL,
\* httpReq and resp, and the output it returned.
IdleCall(input) ==
    [pc |-> "idle", input |-> input, cancelled |-> FALSE, tool |-> <<>>,
     fullURL |-> NilURL, req |-> NilRequest, resp |-> Nil, output |-> NilOutput]

\* The configuration file of an LLM client: absent, not JSON, or a JSON object
\* with the members top besides mcpServers, whose entries are JSON objects
\* given as functions from member names to values.
AbsentFile == [kind |-> "absent", top |-> {}, servers |-> [n \in {} |-> <<>>]]
MalformedFile == [kind |-> "malformed", top |-> {}, servers |-> [n \in {} |-> <<>>]]
JSONFile(top, servers) == [kind |-> "json", top |-> top, servers |-> servers]

ArrayValue(elements) == [t |-> "array", v |-> elements]

\* json.Unmarshal(data, &config): of every entry of mcpServers the members
\* command and args, and nothing else of the file.
UnmarshalConfig(file) ==
    [n \in DOMAIN file.servers |->
        [Command |-> IF "command" \in DOMAIN file.servers[n]
                     THEN file.servers[n]["command"] ELSE StringValue(<<>>),
         Args    |-> IF "args" \in DOMAIN file.servers[n]
                     THEN file.servers[n]["args"] ELSE NullValue]]

\* json.MarshalIndent(config, "", "  ")
MarshalConfig(config) ==
    JSONFile({}, [n \in DOMAIN config |->
                     [m \in {"command", "args"} |->
                         IF m = "command" THEN config[n].Command ELSE config[n].Args]])

\* The arguments of the serve command: the document, then every header.
RECURSIVE HeaderArgs(_)
HeaderArgs(headers) ==
    IF headers = <<>> THEN <<>>
    ELSE <<"--headers", Head(headers)>> \o HeaderArgs(Tail(headers))

Executable == <<"/usr/local/bin/kumoctl">>

\* getMCPClientConfig(configFile, executable, specFile, serverName, headers)
getMCPClientConfig(file, specFile, serverName, headers) ==
    IF file.kind = "malformed"
    THEN [err |-> <<"failed to parse existing config">>, config |-> [n \in {} |-> <<>>]]
    ELSE LET config == UnmarshalConfig(file)
         IN  [err |-> <<>>,
              config |-> [n \in DOMAIN config \cup {serverName} |->
                             IF n = serverName
                             THEN [Command |-> StringValue(Executable),
                                   Args    |-> ArrayValue(<<"serve", specFile>>
                                                          \o HeaderArgs(headers))]
                             ELSE config[n]]]

\* configureMCPClient(configDir, configFile, executable, specFile, serverName,
\* headers): [err, file], given whether os.MkdirAll and os.WriteFile succeed.
configureMCPClient(file, specFile, serverName, headers, dryRun, mkdirAll, writeFile) ==
    LET got == getMCPClientConfig(file, specFile, serverName, headers)
    IN  IF ~mkdirAll
        THEN [err |-> <<"failed to create config directory">>, file |-> file]
        ELSE IF got.err # <<>> THEN [err |-> got.err, file |-> file]
        ELSE IF dryRun THEN [err |-> <<>>, file |-> file]
        ELSE IF ~writeFile
        THEN [err |-> <<"failed to write configuration file">>, file |-> file]
        ELSE [err |-> <<>>, file |-> MarshalConfig(got.config)]

\* configureClaudeDesktop: [err, message] for the outcome of configureMCPClient
configureClaudeDesktop(done) == [err |-> done.err, message |-> done.err = <<>>]

\* configureCursor: [err, message] for the outcome of configureMCPClient
configureCursor(done) == [err |-> <<>>, message |-> done.err = <<>>]

\* The switch of runConfigure over the --client flag.
Clients == {"claude-desktop", "cursor"}

\* No run of the configure command yet; client is the --client flag of the
\* runs to come, whose file configFile is.
NoRun ==
    [runs |-> 0, client |-> "claude-desktop", name |-> "", err |-> <<>>, failed |-> <<>>,
     message |-> FALSE, dry |-> FALSE]

\* The state after construction, for a document, a header configuration, an
\* upstream behaviour and the inputs of the calls to come.
InitFrom(sources, headers, responses, ids, inputs) ==
    /\ data \in sources
    /\ spec = NoSpec
    /\ loadErr = <<>>
    /\ additionalHeaders \in headers
    /\ upstream \in responses
    /\ phase = "loading"
    /\ pending = {}
    /\ curPath = <<>>
    /\ tools = <<>>
    /\ compileErr = <<>>
    /\ server = [n \in {} |-> <<>>]
    /\ calls \in [ids -> {IdleCall(in) : in \in inputs}]
    /\ network = <<>>
    /\ configFile = AbsentFile
    /\ configured = NoRun

\* The same, for sources that are well-formed encodings of the given documents.
InitWith(docs, headers, responses, ids, inputs) ==
    InitFrom({Encoded(d) : d \in docs}, headers, responses, ids, inputs)

\* The serve command loads the document: LoadSpec classifies the bytes and
\* GenerateToolsFromSpec starts on the result, or the command ends with
\* LoadSpec's error.
Load ==
    /\ phase = "loading"
    /\ LET loaded == LoadSpec(data)
       IN  IF loaded.err # <<>>
           THEN /\ phase' = "unloaded"
                /\ loadErr' = loaded.err
                /\ UNCHANGED <<spec, pending>>
           ELSE /\ phase' = "compiling"
                /\ spec' = loaded.spec
                /\ pending' = OperationsOf(loaded.spec)
                /\ UNCHANGED loadErr
    /\ UNCHANGED <<configFile, configured, data, additionalHeaders, upstream, curPath, tools, compileErr, server,
                   calls, network>>

\* CompileOperation as it would be if the iterations shared one input schema:
\* a descriptor also has the properties of the descriptor before it.
CompileOperationSharedSchema ==
    /\ phase = "compiling"
    /\ \E pm \in pending :
         /\ (\E qm \in pending : qm[1] = curPath) => pm[1] = curPath
         /\ LET got == generateInputSchemaFromInterface(spec, pm[1], pm[2])
                before == IF tools = <<>> THEN EmptyObjectSchema.Properties
                          ELSE tools[Len(tools)].InputSchema.Properties
                shared == [got.schema EXCEPT
                             !.Properties =
                                 [n \in DOMAIN before \cup DOMAIN got.schema.Properties |->
                                     IF n \in DOMAIN got.schema.Properties
                                     THEN got.schema.Properties[n] ELSE before[n]]]
            IN  IF got.panic
                THEN /\ phase' = "crashed"
                     /\ UNCHANGED <<tools, compileErr>>
                ELSE IF got.err # <<>>
                THEN /\ phase' = "failed"
                     /\ tools' = <<>>
                     /\ compileErr' = <<"failed to generate input schema for ">> \o pm[2]
                                      \o <<" ">> \o pm[1] \o <<": ">> \o got.err
                ELSE /\ tools' = Append(tools, EnrichedTool(spec, pm[1], pm[2], shared))
                     /\ UNCHANGED <<phase, compileErr>>
         /\ pending' = pending \ {pm}
         /\ curPath' = pm[1]
    /\ UNCHANGED <<configFile, configured, data, spec, loadErr, additionalHeaders, upstream, server, calls, network>>

\* One iteration of the loops of GetToolsFromSpec: the maps are ranged over in
\* any order, a path's operations together.
CompileOperation ==
    /\ phase = "compiling"
    /\ \E pm \in pending :
         /\ (\E qm \in pending : qm[1] = curPath) => pm[1] = curPath
         /\ LET got == generateInputSchemaFromInterface(spec, pm[1], pm[2])
            IN  IF got.panic
                THEN /\ phase' = "crashed"
                     /\ UNCHANGED <<tools, compileErr>>
                ELSE IF got.err # <<>>
                THEN /\ phase' = "failed"
                     /\ tools' = <<>>
                     /\ compileErr' = <<"failed to generate input schema for ">> \o pm[2]
                                      \o <<" ">> \o pm[1] \o <<": ">> \o got.err
                ELSE /\ tools' = Append(tools, EnrichedTool(spec, pm[1], pm[2], got.schema))
                     /\ UNCHANGED <<phase, compileErr>>
         /\ pending' = pending \ {pm}
         /\ curPath' = pm[1]
    /\ UNCHANGED <<configFile, configured, data, spec, loadErr, additionalHeaders, upstream, server, calls, network>>

\* GetToolsFromSpec has returned its descriptors: GenerateToolsFromSpec creates
\* a handler for each and adds it to the server.
RegisterTools ==
    /\ phase = "compiling"
    /\ pending = {}
    /\ server' = AddTools(server, tools)
    /\ phase' = "serving"
    /\ UNCHANGED <<configFile, configured, data, spec, loadErr, additionalHeaders, upstream, pending, curPath, tools, compileErr,
                   calls, network>>

\* client := &http.Client{}: a client value of invocation i's own, without a
\* transport, so that its requests go through http.DefaultTransport.
Client(i) == [owner |-> i, Transport |-> "http.DefaultTransport"]

\* Dispatched as it would be if the request went out whatever the local steps
\* returned.
DispatchedAlways(net, i, prep) ==
    Append(net, [call |-> i, client |-> Client(i), req |-> prep.req])

\* The requests on the wire after the handler's local steps of call i.
Dispatched(net, i, prep) ==
    IF prep.failed THEN net
    ELSE Append(net, [call |-> i, client |-> Client(i), req |-> prep.req])

\* A tool is called: the handler builds the request and, unless a local step
\* failed, hands it to client.Do.
Invoke(i) ==
    /\ phase = "serving"
    /\ calls[i].pc = "idle"
    /\ \E name \in DOMAIN server :
         LET prep == PrepareRequest(spec, server[name], calls[i].input, additionalHeaders)
         IN  /\ calls' = [calls EXCEPT ![i] =
                    [@ EXCEPT !.pc = IF prep.failed THEN "done" ELSE "inflight",
                              !.tool = name,
                              !.fullURL = prep.fullURL,
                              !.req = prep.req,
                              !.output = prep.output]]
             /\ network' = Dispatched(network, i, prep)
    /\ UNCHANGED <<configFile, configured, data, spec, loadErr, additionalHeaders, upstream, phase, pending, curPath, tools,
                   compileErr, server>>

\* The context of invocation i is cancelled while client.Do is waiting.
Cancel(i) ==
    /\ calls[i].pc = "inflight"
    /\ ~calls[i].cancelled
    /\ calls' = [calls EXCEPT ![i] = [@ EXCEPT !.cancelled = TRUE]]
    /\ UNCHANGED <<configFile, configured, data, spec, loadErr, additionalHeaders, upstream, phase, pending, curPath,
                   tools, compileErr, server, network>>

\* The context the request of invocation i is bound to has ended.
ContextDone(i) == calls[i].cancelled /\ calls[i].req.Ctx = HandlerContext

\* Respond as it would be if the handlers kept the response in one place they
\* share: every invocation waiting for an answer takes it.
RespondShared(i) ==
    /\ calls[i].pc = "inflight"
    /\ ~ContextDone(i)
    /\ calls' = [j \in DOMAIN calls |->
                    IF calls[j].pc = "inflight"
                    THEN [calls[j] EXCEPT !.pc = "done", !.resp = Some(upstream),
                                          !.output = parseResponse(upstream)]
                    ELSE calls[j]]
    /\ UNCHANGED <<configFile, configured, data, spec, loadErr, additionalHeaders, upstream, phase, pending, curPath,
                   tools, compileErr, server, network>>

\* client.Do returns a response, which it does not once the request's context
\* has ended: the handler returns parseResponse's output.
Respond(i) ==
    /\ calls[i].pc = "inflight"
    /\ ~ContextDone(i)
    /\ calls' = [calls EXCEPT ![i] = [@ EXCEPT !.pc = "done",
                                               !.resp = Some(upstream),
                                               !.output = parseResponse(upstream)]]
    /\ UNCHANGED <<configFile, configured, data, spec, loadErr, additionalHeaders, upstream, phase, pending, curPath, tools,
                   compileErr, server, network>>

\* TransportFail as it would be if the handler sent the request once more
\* after a first failure.
TransportFailRetried(i) ==
    /\ calls[i].pc = "inflight"
    /\ IF Cardinality({k \in 1..Len(network) : network[k].call = i}) < 2
       THEN /\ network' = Append(network, [call |-> i, client |-> Client(i),
                                           req |-> calls[i].req])
            /\ UNCHANGED calls
       ELSE /\ calls' = [calls EXCEPT ![i] =
                   [@ EXCEPT !.pc = "done",
                             !.output = ErrorOutput("HTTP request failed: ",
                                                    <<"transport error">>)]]
            /\ UNCHANGED network
    /\ UNCHANGED <<configFile, configured, data, spec, loadErr, additionalHeaders, upstream, phase, pending, curPath,
                   tools, compileErr, server>>

\* client.Do returns an error: connection refused, timeout, DNS failure, or
\* the end of the request's context.
TransportFail(i) ==
    /\ calls[i].pc = "inflight"
    /\ calls' = [calls EXCEPT ![i] =
           [@ EXCEPT !.pc = "done",
                     !.output = ErrorOutput("HTTP request failed: ",
                                            IF ContextDone(i) THEN <<"context canceled">>
                                            ELSE <<"transport error">>)]]
    /\ UNCHANGED <<configFile, configured, data, spec, loadErr, additionalHeaders, upstream, phase, pending, curPath, tools,
                   compileErr, server, network>>

\* The number of runs of the configure command the specifications follow.
MaxRuns == 2

\* One run of the configure command for the client: configureMCPClient
\* creates the directory, reads the file, sets the entry of the server name
\* and, unless this is a dry run, writes the file; the client's function
\* prints the success message and returns. The directory of a file that
\* exists can be created; err is what the command returns, failed the error
\* of configureMCPClient.
Configure(specFile, serverName, headers, dryRun, mkdirAll, writeFile) ==
    /\ configured.runs < MaxRuns
    /\ ~mkdirAll => configFile = AbsentFile
    /\ LET done == configureMCPClient(configFile, specFile, serverName, headers, dryRun,
                                      mkdirAll, writeFile)
           out  == IF configured.client = "cursor" THEN configureCursor(done)
                   ELSE configureClaudeDesktop(done)
       IN  /\ configured' = [runs |-> configured.runs + 1, client |-> configured.client,
                             name |-> serverName, err |-> out.err, failed |-> done.err,
                             message |-> out.message, dry |-> dryRun]
           /\ configFile' = done.file
    /\ UNCHANGED <<data, spec, loadErr, additionalHeaders, upstream, phase, pending, curPath,
                   tools, compileErr, server, calls, network>>

Next ==
    \/ Load
    \/ CompileOperation
    \/ RegisterTools
    \/ \E i \in DOMAIN calls : Invoke(i)
    \/ \E i \in DOMAIN calls : Cancel(i)
    \/ \E i \in DOMAIN calls : Respond(i)
    \/ \E i \in DOMAIN calls : TransportFail(i)

-----------------------------------------------------------------------------
(* Documents, inputs and upstream behaviours the specifications start from *)

NoProperties == [p \in {} |-> Nil]

\* A schema and a reference to it.
Schema(type, properties, required, default) ==
    [Type |-> type, Properties |-> properties, Required |-> required, Default |-> default]
SchemaRef(schema) == [Ref |-> <<>>, Value |-> Some(schema)]
Unresolved(name) == [Ref |-> <<"#/definitions/">> \o name, Value |-> Nil]

\* A parameter without a schema of its own.
Parameter(name, in, required) ==
    [Name |-> name, In |-> in, Required |-> required, Description |-> <<>>,
     Type |-> "", Schema |-> Nil]

\* The legacy dialect's body parameter.
BodyParameter(ref) ==
    [Name |-> <<"body">>, In |-> "body", Required |-> TRUE, Description |-> <<>>,
     Type |-> "", Schema |-> Some(ref)]

\* The modern dialect's request body with one media type.
RequestBody3(mediaType, ref) ==
    Some([Value |-> Some([Content |-> Some([m \in {mediaType} |-> [Schema |-> Some(ref)]])])])

Operation(operationID, parameters, requestBody) ==
    [OperationID |-> operationID, Summary |-> <<>>, Parameters |-> parameters,
     RequestBody |-> requestBody]

PathItem(parameters, operations) == [Parameters |-> parameters, Operations |-> operations]

Document(dialect, baseURL, definitions, paths) ==
    [dialect |-> dialect,
     Servers |-> <<baseURL>>,
     Schemes |-> <<<<Head(baseURL)>>>>, Host |-> <<baseURL[4]>>,
     BasePath |-> SubSeq(baseURL, 5, Len(baseURL)),
     Definitions |-> definitions,
     Paths |-> paths]

ExampleBase == <<"http:", "/", "/", "api.example.com">>

\* An operation with a request body of the given object schema, in either
\* dialect (the legacy dialect declares it as a body parameter).
WithBody(dialect, operationID, parameters, ref) ==
    IF dialect = "3" THEN Operation(operationID, parameters, RequestBody3("application/json", ref))
    ELSE Operation(operationID, parameters \o <<BodyParameter(ref)>>, Nil)

\* An operation whose request-body schema does not resolve: the modern dialect
\* offers no application/json content, the legacy one refers to a definition
\* the document does not have.
WithBadBody(dialect, operationID, parameters) ==
    IF dialect = "3"
    THEN Operation(operationID, parameters,
                   RequestBody3("text/plain", SchemaRef(Schema("object", NoProperties, <<>>, Nil))))
    ELSE Operation(operationID, parameters \o <<BodyParameter(Unresolved(<<"users">>))>>, Nil)

UserSchema ==
    Schema("object",
           [p \in {<<"name">>, <<"active">>} |->
               IF p = <<"name">> THEN SchemaRef(Schema("string", NoProperties, <<>>, Nil))
               ELSE SchemaRef(Schema("boolean", NoProperties, <<>>, Some(BoolValue(<<"true">>))))],
           <<<<"name">>>>, Nil)

\* A function from the members of ms for which kind is not "absent".
OperationsFrom(dialect, kinds, parameters) ==
    [m \in {k \in DOMAIN kinds : kinds[k] # "absent"} |->
        CASE kinds[m] = "plain" -> Operation(<<>>, parameters, Nil)
          [] kinds[m] = "body"  -> WithBody(dialect, <<>>, parameters, SchemaRef(UserSchema))
          [] OTHER              -> WithBadBody(dialect, <<>>, parameters)]

UsersPath == <<"/", "users">>
UserPath == <<"/", "users", "/", "{", "id", "}">>

\* What each path defines: /users a GET or not and a POST with a body, with an
\* unresolvable body, or not; /users/{id} a GET and possibly a POST with an
\* unresolvable body.
UsersKinds ==
    {k \in [{<<"get">>, <<"post">>} -> {"absent", "plain", "body", "bad"}] :
        /\ k[<<"get">>] \in {"absent", "plain"}
        /\ k[<<"post">>] \in {"absent", "body", "bad"}}

UserKinds ==
    {k \in [{<<"get">>, <<"post">>} -> {"absent", "plain", "body", "bad"}] :
        /\ k[<<"get">>] = "plain"
        /\ k[<<"post">>] \in {"absent", "bad"}}

\* Documents of either dialect with up to four operations on two paths.
MainDocuments ==
    { Document(d, ExampleBase, [n \in {} |-> Nil],
               [p \in {UsersPath, UserPath} |->
                   IF p = UsersPath
                   THEN PathItem(<<Parameter(<<"limit">>, "query", FALSE)>>,
                                 OperationsFrom(d, k1, <<>>))
                   ELSE PathItem(<<>>,
                                 OperationsFrom(d, k2, <<Parameter(<<"id">>, "path", TRUE)>>))]) :
        d \in {"2", "3"},
        k1 \in UsersKinds, k2 \in UserKinds }

NoHeaders == {EmptyValues}

\* Upstream answers: a status, one header with two values, a body.
Response(status, body) ==
    [StatusCode |-> status,
     Header |-> [h \in {<<"Content-Type">>} |-> <<<<"application/json">>, <<"x">>>>],
     Body |-> body]

Statuses == {200, 204, 301, 400, 404, 500, 503}

\* 204 comes without a body, every other status with the JSON text [1].
MainResponses ==
    {Response(st, IF st = 204 THEN <<>> ELSE <<"[", "1", "]">>) : st \in Statuses}

\* No argument at all; every argument; an id no URL can hold.
MainInputs ==
    { [k \in {} |-> NullValue],
      [k \in {<<"id">>, <<"name">>, <<"limit">>} |->
          IF k = <<"name">> THEN StringValue(<<"x">>) ELSE NumberValue(<<"10">>)],
      [k \in {<<"id">>} |-> StringValue(<<"%">>)] }

\* The number of calls the specifications follow.
NumCalls == 1

Init == InitWith(MainDocuments, NoHeaders, MainResponses, 1..NumCalls, MainInputs)

Spec == Init /\ [][Next]_vars

-----------------------------------------------------------------------------
(* Properties of the handler and of the compilation, under Spec *)

\* s holds sub as a run of consecutive characters
HasInfix(s, sub) ==
    \E k \in 0..(Len(s) - Len(sub)) : SubSeq(s, k + 1, k + Len(sub)) = sub

\* The placeholders of a path template: the names n of its parts "{" n "}"
\* with n not empty and free of braces.
Placeholders(path) ==
    { SubSeq(path, ij[1] + 1, ij[2] - 1) :
        ij \in { xy \in (1..Len(path)) \X (1..Len(path)) :
                   /\ xy[1] + 1 < xy[2]
                   /\ path[xy[1]] = "{"
                   /\ path[xy[2]] = "}"
                   /\ \A k \in (xy[1] + 1)..(xy[2] - 1) : path[k] \notin {"{", "}"} } }

\* The tool call i invoked.
ToolOf(i) == server[calls[i].tool]

\* The positions of network that hold a request of call i.
RequestsOf(i) == {k \in 1..Len(network) : network[k].call = i}

\* The texts the handler puts in front of the error of a step that runs before
\* client.Do.
LocalPrefixes ==
    {"Failed to build URL: ", "Failed to add query params: ",
     "Failed to build request body: ", "Failed to create request: ",
     "Failed to set headers: "}

\* A step before client.Do fails for call i: a placeholder of the path has no
\* argument, or an argument puts a "%" that starts no escape into the URL.
LocalStepFails(i) ==
    \E n \in Placeholders(ToolOf(i).Path) :
        \/ n \notin DOMAIN calls[i].input
        \/ Contains(Sprintf(calls[i].input[n]), "%")

\* C1: when a local step of an invocation fails (path substitution, URL
\* parsing, query, body, request creation) the invocation has ended with an
\* error result and no HTTP request of it is, or ever was, on the network.
C1_LocalFailureSendsNothing ==
    \A i \in DOMAIN calls :
        /\ (calls[i].pc # "idle" /\ LocalStepFails(i)) =>
               /\ calls[i].pc = "done"
               /\ calls[i].output.Error # <<>>
               /\ Head(calls[i].output.Error) \in LocalPrefixes
               /\ RequestsOf(i) = {}
        /\ (calls[i].output.Error # <<>> /\ Head(calls[i].output.Error) \in LocalPrefixes) =>
               /\ calls[i].pc = "done"
               /\ calls[i].resp = Nil
               /\ RequestsOf(i) = {}

\* A call of a tool with a path parameter and no argument for it has ended in
\* the error of buildURL, the network untouched.
C1_Witness ==
    \E i \in DOMAIN calls :
        /\ calls[i].pc = "done"
        /\ calls[i].input = [k \in {} |-> NullValue]
        /\ ToolOf(i).Path = UserPath
        /\ Head(calls[i].output.Error) = "Failed to build URL: "
        /\ network = <<>>

\* C3: whenever client.Do returned a response, whatever its status (4xx and
\* 5xx included), the invocation's result carries exactly that status, the
\* decoded body, the first value of each header, and an empty error text.
C3_StatusIsReturned ==
    \A i \in DOMAIN calls :
        (calls[i].pc = "done" /\ calls[i].resp # Nil) =>
            /\ calls[i].output.StatusCode = calls[i].resp[1].StatusCode
            /\ calls[i].output.Error = <<>>
            /\ calls[i].output.Body =
                   (IF calls[i].resp[1].Body = <<>> THEN Nil ELSE Some(calls[i].resp[1].Body))
            /\ calls[i].output.Headers =
                   Some([h \in DOMAIN calls[i].resp[1].Header |-> calls[i].resp[1].Header[h][1]])

\* An upstream answer of 500 came back as an output of status 500 with its
\* body and no error text.
C3_Witness ==
    \E i \in DOMAIN calls :
        /\ calls[i].pc = "done"
        /\ calls[i].resp # Nil
        /\ upstream.StatusCode = 500
        /\ calls[i].output.StatusCode = 500
        /\ calls[i].output.Body = Some(<<"[", "1", "]">>)
        /\ calls[i].output.Error = <<>>

\* C5: an invocation that ended without an HTTP response (a local step or
\* the transport failed) returns a non-empty error text and neither status
\* code, body nor headers; one that ended with an HTTP response returns an
\* empty error text.
C5_FailureIsErrorValue ==
    \A i \in DOMAIN calls :
        calls[i].pc = "done" =>
            IF calls[i].resp = Nil
            THEN /\ calls[i].output.Error # <<>>
                 /\ Len(calls[i].output.Error) >= 2
                 /\ calls[i].output.StatusCode = 0
                 /\ calls[i].output.Body = Nil
                 /\ calls[i].output.Headers = Nil
            ELSE /\ calls[i].output.Error = <<>>
                 /\ calls[i].output.StatusCode # 0
                 /\ calls[i].output.Headers # Nil

\* A request went out and the transport failed: the result is the error text
\* of client.Do's error and nothing else.
C5_Witness ==
    \E i \in DOMAIN calls :
        /\ calls[i].pc = "done"
        /\ calls[i].resp = Nil
        /\ RequestsOf(i) # {}
        /\ Head(calls[i].output.Error) = "HTTP request failed: "
        /\ calls[i].output.StatusCode = 0

\* The request-body schema of the operation pm = <<path, method>> fails to
\* resolve.
FailsToResolve(doc, pm) ==
    /\ GetRequestBody(doc, pm[1], pm[2]) # Nil
    /\ GetJSONSchema(doc, GetRequestBody(doc, pm[1], pm[2])).err # <<>>

Failing(doc) == {pm \in OperationsOf(doc) : FailsToResolve(doc, pm)}

\* C6: when the request-body schema of some operation of the document fails to
\* resolve, the compilation never completes: it ends in an error naming the
\* method and the path of a failing operation, with no descriptor returned, and
\* no tool is ever registered on the server.
C6_AllOrNothing ==
    Failing(spec) # {} =>
        /\ phase \in {"compiling", "failed"}
        /\ DOMAIN server = {}
        /\ pending = {} => phase = "failed"
        /\ phase = "failed" =>
               /\ tools = <<>>
               /\ \E pm \in Failing(spec) :
                      HasInfix(compileErr, pm[2] \o <<" ">> \o pm[1] \o <<": ">>)
               /\ Head(compileErr) = "failed to generate input schema for "

\* The compilation failed on POST /users after GET /users/{id} had compiled:
\* nothing is returned, nothing registered.
C6_Witness ==
    /\ phase = "failed"
    /\ <<UserPath, <<"get">>>> \in OperationsOf(spec) \ (Failing(spec) \cup pending)
    /\ HasInfix(compileErr, <<"post", " ", "/", "users", ": ">>)
    /\ tools = <<>>
    /\ DOMAIN server = {}

-----------------------------------------------------------------------------
(* Path templates: SpecPath compiles one operation on a path put together    *)
(* from pieces and calls it with none, some or all of its path arguments     *)

\* The strings of at most n characters of chars
StringsUpTo(chars, n) == UNION {[1..k -> chars] : k \in 0..n}

\* The number of pieces a generated path template has at most.
MaxPathPieces == 3

PathPieces ==
    {<<"/">>, <<"users">>, <<"{", "id", "}">>, <<"{", "postId", "}">>, <<"_">>, <<"{">>,
     <<"}">>}

PostsPath == <<"/", "users", "/", "{", "id", "}", "/", "posts", "/", "{", "postId", "}">>

PathTemplates ==
    {Flatten(ps) : ps \in StringsUpTo(PathPieces, MaxPathPieces)} \cup {PostsPath}

\* A document with one operation.
SingleOperation(dialect, path, parameters, method, operation) ==
    Document(dialect, ExampleBase, [n \in {} |-> Nil],
             [p \in {path} |-> PathItem(parameters, [m \in {method} |-> operation])])

\* The method and the operation identifier of the operation.
NamedMethods ==
    {<<<<"get">>, <<>>>>, <<<<"post">>, <<>>>>, <<<<"get">>, <<"getUserById">>>>}

PathDocuments ==
    { SingleOperation("2", path, <<>>, mo[1], Operation(mo[2], <<>>, Nil)) :
        path \in PathTemplates, mo \in NamedMethods }

PathInputs ==
    { [k \in K |-> NumberValue(<<"123">>)] :
        K \in {{}, {<<"id">>}, {<<"id">>, <<"postId">>}} }

\* The pure functions are applied once: one call.
OneCall == {1}

InitPath ==
    InitWith(PathDocuments, NoHeaders, {Response(200, <<"[", "1", "]">>)}, OneCall,
             PathInputs)

SpecPath == InitPath /\ [][Next]_vars

\* The placeholders of the path of call i that its input has no key for.
UnresolvedPlaceholders(i) == {n \in Placeholders(ToolOf(i).Path) : n \notin DOMAIN calls[i].input}

\* C2: whatever the path template and the input, when a placeholder of the
\* template has no key in the input the invocation fails with buildURL's
\* "missing required path parameters" error, and the list of that error holds
\* the name of every such placeholder.
C2_EveryMissingNamed ==
    \A i \in DOMAIN calls :
        (calls[i].pc # "idle" /\ UnresolvedPlaceholders(i) # {}) =>
            /\ calls[i].pc = "done"
            /\ Len(calls[i].output.Error) > 3
            /\ calls[i].output.Error[1] = "Failed to build URL: "
            /\ calls[i].output.Error[2] = "missing required path parameters: "
            /\ calls[i].output.Error[3] = "["
            /\ calls[i].output.Error[Len(calls[i].output.Error)] = "]"
            /\ \A n \in UnresolvedPlaceholders(i) : HasInfix(Tail(Tail(calls[i].output.Error)), n)

\* /users/{id}/posts/{postId} called without arguments: the error lists id and
\* postId.
C2_Witness ==
    \E i \in DOMAIN calls :
        /\ calls[i].pc = "done"
        /\ ToolOf(i).Path = PostsPath
        /\ DOMAIN calls[i].input = {}
        /\ calls[i].output.Error =
              <<"Failed to build URL: ", "missing required path parameters: ",
                "[", "id", " ", "postId", "]">>

\* The path with "{" and "}" left out, "/" turned into "_", and the "_" at
\* both ends cut off.
Unbraced(path) == SelectSeq(path, LAMBDA c : c \notin {"{", "}"})
Underscored(path) ==
    [k \in 1..Len(Unbraced(path)) |->
        IF Unbraced(path)[k] = "/" THEN "_" ELSE Unbraced(path)[k]]
Inner(path) == {k \in 1..Len(Underscored(path)) : Underscored(path)[k] # "_"}
CleanPath(path) ==
    IF Inner(path) = {} THEN <<>>
    ELSE SubSeq(Underscored(path),
                CHOOSE k \in Inner(path) : \A l \in Inner(path) : k <= l,
                CHOOSE k \in Inner(path) : \A l \in Inner(path) : k >= l)

\* C10: a tool's name is the operation's identifier when it has one; else the
\* method, "_" and the cleaned path; else, when nothing of the path remains,
\* the method alone.  post /users/{id}/posts/{postId} gives
\* post_users_id_posts_postId and get / gives get.
C10_ToolName ==
    \A k \in 1..Len(tools) :
        /\ tools[k].Name =
              (IF spec.Paths[tools[k].Path].Operations[tools[k].Method].OperationID # <<>>
               THEN spec.Paths[tools[k].Path].Operations[tools[k].Method].OperationID
               ELSE IF CleanPath(tools[k].Path) = <<>> THEN tools[k].Method
               ELSE tools[k].Method \o <<"_">> \o CleanPath(tools[k].Path))
        /\ spec.Paths[tools[k].Path].Operations[tools[k].Method].OperationID = <<>> =>
              /\ (tools[k].Method = <<"post">> /\ tools[k].Path = PostsPath) =>
                     tools[k].Name = <<"post", "_", "users", "_", "id", "_", "posts", "_",
                                       "postId">>
              /\ (tools[k].Method = <<"get">> /\ tools[k].Path \in {<<"/">>, <<>>}) =>
                     tools[k].Name = <<"get">>

\* post /users/{id}/posts/{postId} without an identifier is compiled and
\* registered under its derived name.
C10_Witness ==
    /\ phase = "serving"
    /\ <<"post", "_", "users", "_", "id", "_", "posts", "_", "postId">> \in DOMAIN server
    /\ spec.Paths[PostsPath].Operations[<<"post">>].OperationID = <<>>

-----------------------------------------------------------------------------
(* Path arguments: SpecRoundTrip calls an operation with a parameterised     *)
(* path, every placeholder given a string argument                           *)

\* The number of characters a path argument has at most.
MaxValueLen == 2

\* An ordinary character and the ones a URL gives a meaning to.
ValueChars == {"x", "/", "?", "%"}

PathValues == {StringValue(v) : v \in StringsUpTo(ValueChars, MaxValueLen)}

RoundTripDocuments ==
    { SingleOperation("3", path, <<>>, <<"get">>,
                      Operation(<<>>,
                                <<Parameter(<<"id">>, "path", TRUE),
                                  Parameter(<<"postId">>, "path", TRUE)>>, Nil)) :
        path \in {UserPath, PostsPath} }

InitRoundTrip ==
    InitWith(RoundTripDocuments, NoHeaders, {Response(200, <<"[", "1", "]">>)}, OneCall,
             [{<<"id">>, <<"postId">>} -> PathValues])

SpecRoundTrip == InitRoundTrip /\ [][Next]_vars

\* The segments of a path, and the name of a segment that is a placeholder.
Segments(path) == Split(path, "/")
IsPlaceholder(segment) ==
    Len(segment) = 3 /\ segment[1] = "{" /\ segment[3] = "}" /\ segment[2] \notin {"{", "}"}

\* The URL of call i read again from its text.
Reparsed(i) == Parse(String(calls[i].fullURL))

\* C7: a path template with parameters, an input with a value for each of
\* them: buildURL succeeds, and the URL it built, parsed again, has as many
\* path segments as the template and the supplied value in the segment of
\* each placeholder.
C7_RoundTrip ==
    \A i \in DOMAIN calls :
        ( /\ calls[i].pc # "idle"
          /\ Placeholders(ToolOf(i).Path) # {}
          /\ Placeholders(ToolOf(i).Path) \subseteq DOMAIN calls[i].input ) =>
            /\ ~( /\ calls[i].output.Error # <<>>
                  /\ Head(calls[i].output.Error) = "Failed to build URL: " )
            /\ ~Reparsed(i).err
            /\ Len(Segments(Reparsed(i).url.Path)) = Len(Segments(ToolOf(i).Path))
            /\ \A k \in 1..Len(Segments(ToolOf(i).Path)) :
                   IsPlaceholder(Segments(ToolOf(i).Path)[k]) =>
                       Segments(Reparsed(i).url.Path)[k] =
                           Sprintf(calls[i].input[<<Segments(ToolOf(i).Path)[k][2]>>])

-----------------------------------------------------------------------------
(* Query strings: SpecQuery calls GET /users with parameters of every        *)
(* location declared on the path and on the operation                        *)

\* The number of parameters the operation declares at most.
MaxQueryParams == 2

DeclaredParameters ==
    { Parameter(n, in, FALSE) :
        n \in {<<"limit">>, <<"status">>}, in \in {"query", "header", "path", "body"} }

QueryDocuments ==
    { SingleOperation("2", UsersPath, shared, <<"get">>, Operation(<<>>, own, Nil)) :
        shared \in StringsUpTo(DeclaredParameters, 1),
        own \in StringsUpTo(DeclaredParameters, MaxQueryParams) }

\* limit=10, status=active and an argument no parameter declares.
QueryValue(k) ==
    CASE k = <<"limit">>  -> NumberValue(<<"10">>)
      [] k = <<"status">> -> StringValue(<<"active">>)
      [] OTHER            -> BoolValue(<<"true">>)

QueryInputs ==
    { [k \in K |-> QueryValue(k)] :
        K \in {{}, {<<"limit">>}, {<<"status">>, <<"limit">>}, {<<"status">>, <<"x">>}} }

InitQuery ==
    InitWith(QueryDocuments, NoHeaders, {Response(200, <<"[", "1", "]">>)}, OneCall,
             QueryInputs)

SpecQuery == InitQuery /\ [][Next]_vars

\* The names of the declared query parameters of call i that its input holds.
QueryNames(i) ==
    { n \in DOMAIN calls[i].input :
        \E k \in 1..Len(GetParameters(spec, ToolOf(i).Path, ToolOf(i).Method)) :
            /\ GetParameters(spec, ToolOf(i).Path, ToolOf(i).Method)[k].Name = n
            /\ GetParameters(spec, ToolOf(i).Path, ToolOf(i).Method)[k].In = "query" }

\* q is the names of N, each once, in ascending order, each with its value.
IsSortedQuery(q, N, input) ==
    \E order \in [1..Cardinality(N) -> N] :
        /\ \A k, l \in 1..Cardinality(N) : k < l => LexLess(order[k], order[l])
        /\ q = Join([k \in 1..Cardinality(N) |->
                        order[k] \o <<"=">> \o Sprintf(input[order[k]])], "&")

\* C9: the query string of a call's URL has one name=value entry, the value
\* the stringified argument, for every declared query parameter the input has
\* a key for (also for one declared on the path and on the operation), none
\* for a parameter of another location or an undeclared argument, and the
\* entries in ascending order of name.
C9_QueryString ==
    \A i \in DOMAIN calls :
        calls[i].pc # "idle" =>
            /\ IsSortedQuery(calls[i].fullURL.RawQuery, QueryNames(i), calls[i].input)
            /\ calls[i].req.URL =
                   ToolOf(i).BaseUrl \o ToolOf(i).Path
                   \o (IF QueryNames(i) = {} THEN <<>>
                       ELSE <<"?">> \o calls[i].fullURL.RawQuery)

\* status declared before limit, on the path and on the operation, and both
\* given: limit=10&status=active.
C9_Witness ==
    \E i \in DOMAIN calls :
        /\ calls[i].pc = "inflight"
        /\ DOMAIN calls[i].input = {<<"status">>, <<"limit">>}
        /\ spec.Paths[UsersPath].Parameters = <<Parameter(<<"status">>, "query", FALSE)>>
        /\ spec.Paths[UsersPath].Operations[<<"get">>].Parameters =
               <<Parameter(<<"status">>, "query", FALSE), Parameter(<<"limit">>, "query", FALSE)>>
        /\ calls[i].fullURL.RawQuery = <<"limit", "=", "10", "&", "status", "=", "active">>

-----------------------------------------------------------------------------
(* Request bodies: SpecBody calls POST /users, whose request body is an      *)
(* object schema with properties with and without a default                  *)

\* Per property: not in the schema, there without a default, there with one.
PropertyKinds == [{<<"name">>, <<"active">>} -> {"absent", "plain", "default"}]

DefaultOf(p) ==
    IF p = <<"name">> THEN StringValue(<<"email">>) ELSE BoolValue(<<"true">>)

BodySchema(kinds) ==
    Schema("object",
           [p \in {q \in DOMAIN kinds : kinds[q] # "absent"} |->
               SchemaRef(Schema(IF p = <<"name">> THEN "string" ELSE "boolean", NoProperties,
                                <<>>,
                                IF kinds[p] = "default" THEN Some(DefaultOf(p)) ELSE Nil))],
           <<>>, Nil)

BodyDocuments ==
    { SingleOperation(d, UsersPath, <<>>, <<"post">>,
                      WithBody(d, <<>>, <<>>, SchemaRef(BodySchema(kinds)))) :
        d \in {"2", "3"}, kinds \in PropertyKinds }

\* The arguments: a name or a null name, active=false, and limit, which the
\* schema never declares.
BodyInputs ==
    { [k \in K |-> CASE k = <<"name">>   -> name
                     [] k = <<"active">> -> BoolValue(<<"false">>)
                     [] OTHER            -> NumberValue(<<"10">>)] :
        K \in SUBSET {<<"name">>, <<"active">>, <<"limit">>},
        name \in {StringValue(<<"x">>), NullValue} }

InitBody ==
    InitWith(BodyDocuments, NoHeaders, {Response(200, <<"[", "1", "]">>)}, OneCall,
             BodyInputs)

SpecBody == InitBody /\ [][Next]_vars

\* The members of the JSON object text body, each "key":value, and the key
\* and the value text of a member.
Members(body) ==
    IF Len(body) <= 2 THEN <<>> ELSE Split(SubSeq(body, 2, Len(body) - 1), ",")
KeyOf(member) == <<member[2]>>
ValueOf(member) == SubSeq(member, 5, Len(member))

\* The properties of the request-body schema of call i's operation.
BodyProperties(i) ==
    GetJSONSchema(spec, GetRequestBody(spec, ToolOf(i).Path, ToolOf(i).Method)).schema[1]
        .Properties

\* What the body must hold for property p: the input's value, else the
\* default, else nothing.
Wanted(i, p) ==
    IF p \in DOMAIN calls[i].input THEN Some(MarshalValue(calls[i].input[p]))
    ELSE IF BodyProperties(i)[p].Value[1].Default # Nil
    THEN Some(MarshalValue(BodyProperties(i)[p].Value[1].Default[1]))
    ELSE Nil

\* C8: the JSON body sent for an operation with an object request-body schema
\* holds, for each property of the schema, the input's value when the input
\* has the key, else the declared default, else no such key; it holds no key
\* twice and no key that is not a property of the schema.
C8_BodyFields ==
    \A i \in DOMAIN calls :
        calls[i].pc # "idle" =>
            /\ Head(calls[i].req.Body) = "{"
            /\ calls[i].req.Body[Len(calls[i].req.Body)] = "}"
            /\ \A p \in DOMAIN BodyProperties(i) :
                   IF Wanted(i, p) = Nil
                   THEN \A k \in 1..Len(Members(calls[i].req.Body)) :
                            KeyOf(Members(calls[i].req.Body)[k]) # p
                   ELSE \E k \in 1..Len(Members(calls[i].req.Body)) :
                            /\ KeyOf(Members(calls[i].req.Body)[k]) = p
                            /\ Some(ValueOf(Members(calls[i].req.Body)[k])) = Wanted(i, p)
            /\ \A k, l \in 1..Len(Members(calls[i].req.Body)) :
                   /\ KeyOf(Members(calls[i].req.Body)[k]) \in DOMAIN BodyProperties(i)
                   /\ KeyOf(Members(calls[i].req.Body)[k]) = KeyOf(Members(calls[i].req.Body)[l])
                          => k = l

\* Both properties have a default, the input gives name and limit: the body
\* is {"active":true,"name":"x"}.
C8_Witness ==
    \E i \in DOMAIN calls :
        /\ calls[i].pc = "inflight"
        /\ calls[i].input = [k \in {<<"name">>, <<"limit">>} |->
                                IF k = <<"name">> THEN StringValue(<<"x">>)
                                ELSE NumberValue(<<"10">>)]
        /\ \A p \in {<<"name">>, <<"active">>} :
               /\ p \in DOMAIN BodyProperties(i)
               /\ BodyProperties(i)[p].Value[1].Default # Nil
        /\ calls[i].req.Body =
               <<"{", "\"", "active", "\"", ":", "true", ",",
                 "\"", "name", "\"", ":", "\"", "x", "\"", "}">>

-----------------------------------------------------------------------------
(* Response bodies: SpecResponse calls GET /users against an upstream that   *)
(* answers with any short body                                               *)

\* The number of characters a generated response body has at most.
MaxBodyLen == 3

BodyChars == {"[", "]", ",", "1", "x", " ", "n", "{", "}", "\"", ":"}

\* The generated bodies, the object {"x":1} and the text {invalid json}.
ResponseBodies ==
    StringsUpTo(BodyChars, MaxBodyLen)
    \cup {<<"{", "\"", "x", "\"", ":", "1", "}">>, <<"{", "x", " ", "x", "}">>}

ResponseDocuments ==
    {SingleOperation("3", UsersPath, <<>>, <<"get">>, Operation(<<>>, <<>>, Nil))}

InitResponse ==
    InitWith(ResponseDocuments, NoHeaders,
             {Response(st, b) : st \in {200, 500}, b \in ResponseBodies}, OneCall,
             {[k \in {} |-> NullValue]})

SpecResponse == InitResponse /\ [][Next]_vars

\* json.Valid(body): the whole text is one JSON value, white space around it
\* allowed.
Valid(body) ==
    /\ ScanValue(body, SkipSpace(body, 1)).ok
    /\ SkipSpace(body, ScanValue(body, SkipSpace(body, 1)).end) > Len(body)

\* C4: parseResponse never fails because of the body: the output has the
\* response's status and headers and no error; its body is absent when the
\* response body is empty or is not valid JSON, and the decoded value when
\* the response body is valid JSON.
C4_BodyDecodedOrAbsent ==
    \A i \in DOMAIN calls :
        (calls[i].pc = "done" /\ calls[i].resp # Nil) =>
            /\ calls[i].output.Error = <<>>
            /\ calls[i].output.StatusCode = calls[i].resp[1].StatusCode
            /\ calls[i].output.Headers =
                   Some([h \in DOMAIN calls[i].resp[1].Header |-> calls[i].resp[1].Header[h][1]])
            /\ calls[i].output.Body =
                   (IF Valid(calls[i].resp[1].Body)
                    THEN Decode(calls[i].resp[1].Body).value
                    ELSE Nil)

-----------------------------------------------------------------------------
(* Loading: sources of every kind the decoders can tell apart *)

\* A document both dialects read alike: GET /users and GET /users/{id}.
PlainDocument ==
    Document("", ExampleBase, [n \in {} |-> Nil],
             [p \in {UsersPath, UserPath} |->
                 IF p = UsersPath
                 THEN PathItem(<<Parameter(<<"limit">>, "query", FALSE)>>,
                               [m \in {<<"get">>} |-> Operation(<<>>, <<>>, Nil)])
                 ELSE PathItem(<<>>,
                               [m \in {<<"get">>} |->
                                   Operation(<<>>, <<Parameter(<<"id">>, "path", TRUE)>>, Nil)])])

\* Every combination of decoder outcomes, with and without a swagger member. A
\* result that validates has been loaded.
Sources ==
    { Source(l, v, j, y, m, r, sw, PlainDocument) :
        l \in BOOLEAN, v \in BOOLEAN, j \in BOOLEAN, y \in BOOLEAN, m \in BOOLEAN,
        r \in BOOLEAN, sw \in {<<>>, <<"2.0">>} }

InitLoad ==
    InitFrom(Sources, NoHeaders, {Response(200, <<"[", "1", "]">>)}, OneCall, MainInputs)

SpecLoad == InitLoad /\ [][Next]_vars

\* The bytes parse and validate as a modern document.
IsModern == data.LoadFromData /\ data.Validate

\* The bytes, decoded as JSON or else as YAML re-encoded to JSON, carry a
\* non-empty swagger marker.
CarriesMarker ==
    /\ data.Swagger # <<>>
    /\ \/ data.JSONUnmarshal
       \/ data.YAMLUnmarshal /\ data.Marshal /\ data.ReUnmarshal

\* C11: once LoadSpec has returned, the document is modern exactly when the
\* bytes parse and validate as modern; otherwise legacy exactly when they carry
\* a non-empty swagger marker as JSON or as YAML re-encoded to JSON; otherwise
\* loading failed with the "unsupported or invalid" error and there is no
\* document.
C11_Classification ==
    phase # "loading" =>
        /\ spec.dialect = "3" <=> IsModern
        /\ spec.dialect = "2" <=> ~IsModern /\ CarriesMarker
        /\ (~IsModern /\ ~CarriesMarker) <=>
               (phase = "unloaded" /\ loadErr = UnsupportedOrInvalid /\ spec = NoSpec)
        /\ phase # "unloaded" =>
               /\ loadErr = <<>>
               /\ spec = [data.Content EXCEPT !.dialect = spec.dialect]

\* Bytes the modern loader reads but that do not validate, that are not JSON
\* for the legacy decoder, and that are a legacy document as YAML.
C11_Witness ==
    /\ phase = "serving"
    /\ spec.dialect = "2"
    /\ data.LoadFromData /\ ~data.Validate /\ ~data.JSONUnmarshal

-----------------------------------------------------------------------------
(* Concurrency: several invocations of the handlers in flight at once *)

\* The number of invocations that run concurrently.
NumConcurrent == 2

\* With an id and without: the second fails locally on /users/{id}.
ConcurrentInputs ==
    { [k \in {<<"id">>} |-> NumberValue(<<"7">>)],
      [k \in {} |-> NullValue] }

InitConcurrent ==
    InitWith({[PlainDocument EXCEPT !.dialect = "3"]}, NoHeaders,
             {Response(200, <<"[", "1", "]">>), Response(500, <<>>)},
             1..NumConcurrent, ConcurrentInputs)

SpecConcurrent == InitConcurrent /\ [][Next]_vars

\* What invocation i holds is what its own descriptor, its own input and the
\* response it received itself give.
Determined(i) ==
    calls[i].pc # "idle" =>
        LET prep == PrepareRequest(spec, server[calls[i].tool], calls[i].input,
                                   additionalHeaders)
        IN  /\ calls[i].req = prep.req
            /\ calls[i].fullURL = prep.fullURL
            /\ calls[i].pc = "done" =>
                   calls[i].output =
                       IF prep.failed THEN prep.output
                       ELSE IF calls[i].resp # Nil THEN parseResponse(calls[i].resp[1])
                       ELSE ErrorOutput("HTTP request failed: ",
                                        IF calls[i].cancelled THEN <<"context canceled">>
                                        ELSE <<"transport error">>)

\* C12: what every invocation sends and returns is determined by its own
\* descriptor, input and response, and a step of one invocation changes no
\* other invocation's record, no input, no tool descriptor and not the
\* additional headers.
C12_Isolated ==
    /\ [](\A i \in DOMAIN calls : Determined(i))
    /\ [][ /\ \A i \in DOMAIN calls :
                 /\ calls'[i].input = calls[i].input
                 /\ calls'[i] # calls[i] =>
                        \A j \in DOMAIN calls \ {i} : calls'[j] = calls[j]
           /\ calls' # calls =>
                 /\ server' = server
                 /\ tools' = tools
                 /\ spec' = spec
                 /\ additionalHeaders' = additionalHeaders ]_vars

\* One invocation has its answer while another, started before it, still waits.
C12_Witness ==
    /\ Len(network) = 2
    /\ calls[network[1].call].pc = "inflight"
    /\ calls[network[2].call].pc = "done"
    /\ calls[network[2].call].resp # Nil

\* C13: an invocation that has run has dispatched exactly one request when its
\* local steps succeeded and none otherwise; once it has reported its result,
\* whatever that is, it dispatches nothing more and the result stays.
C13_OneRequestOneResult ==
    /\ [](\A i \in DOMAIN calls :
            /\ Cardinality(RequestsOf(i)) <= 1
            /\ calls[i].pc = "idle" => RequestsOf(i) = {} /\ calls[i].output = NilOutput
            /\ calls[i].pc # "idle" =>
                   Cardinality(RequestsOf(i)) = IF LocalStepFails(i) THEN 0 ELSE 1)
    /\ [][ \A i \in DOMAIN calls :
             calls[i].pc = "done" =>
                 /\ calls'[i] = calls[i]
                 /\ {k \in 1..Len(network') : network'[k].call = i} = RequestsOf(i) ]_vars

\* One invocation has ended on a transport failure and another on an error
\* status, each after one request.
C13_Witness ==
    \E i, j \in DOMAIN calls :
        /\ calls[i].pc = "done" /\ calls[j].pc = "done"
        /\ calls[i].resp = Nil /\ HasInfix(calls[i].output.Error, <<"HTTP request failed: ">>)
        /\ calls[j].output.StatusCode = 500
        /\ Cardinality(RequestsOf(i)) = 1 /\ Cardinality(RequestsOf(j)) = 1

-----------------------------------------------------------------------------
(* Cancellation: client.Do returns once the context of its request has ended *)

\* client.Do does not wait for ever on a request whose context has ended.
CancelFairness == \A i \in 1..NumConcurrent : WF_vars(ContextDone(i) /\ TransportFail(i))

SpecCancel == InitConcurrent /\ [][Next]_vars /\ CancelFairness

\* Invocation i has ended with the transport error of a cancelled call.
EndedCancelled(i) ==
    /\ calls[i].pc = "done"
    /\ calls[i].resp = Nil
    /\ calls[i].output = [StatusCode |-> 0, Body |-> Nil, Headers |-> Nil,
                          Error |-> <<"HTTP request failed: ", "context canceled">>]

-----------------------------------------------------------------------------
(* The HTTP client of the handlers *)

\* C15: the HTTP client is one shared resource: every request any invocation
\* dispatches goes through the same client, none through a client the
\* invocation constructed for itself, and each request is bound to the context
\* of its own invocation.
C15_OneSharedClient ==
    /\ \A k, l \in 1..Len(network) : network[k].client = network[l].client
    /\ \A k \in 1..Len(network) :
          /\ network[k].client.owner # network[k].call
          /\ network[k].req.Ctx = HandlerContext

-----------------------------------------------------------------------------
(* Input schemas: POST /users/{id} with parameters of every kind and a body *)

\* A parameter by kind: without schema and type, with a declared type, with a
\* schema of its own.
KindedParameter(name, in, required, kind) ==
    [Parameter(name, in, required) EXCEPT
        !.Type = IF kind = "typed" THEN "integer" ELSE "",
        !.Schema = IF kind = "schema"
                   THEN Some(SchemaRef(Schema("integer", NoProperties, <<>>, Nil)))
                   ELSE Nil]

\* Only a legacy parameter declares a type of its own.
ParameterKinds(dialect) ==
    IF dialect = "3" THEN {"untyped", "schema"} ELSE {"untyped", "typed", "schema"}

\* The parameters of the path item (id) and of the operation (limit, or none).
SchemaParameters(dialect) ==
    { <<<<KindedParameter(<<"id">>, "path", TRUE, k1)>>, ps>> :
        k1 \in ParameterKinds(dialect),
        ps \in {<<>>} \cup {<<KindedParameter(<<"limit">>, "query", FALSE, k2)>> :
                               k2 \in ParameterKinds(dialect)} }

\* Request bodies: none, or an object schema with the property name, with or
\* without the property active.
SchemaBodies ==
    {Nil} \cup {Some(BodySchema(kinds)) :
                   kinds \in {k \in PropertyKinds : k[<<"name">>] = "plain"
                                                  /\ k[<<"active">>] # "default"}}

SchemaDocumentsOf(d) ==
    { SingleOperation(d, UserPath, pp[1], <<"post">>,
                      IF b = Nil THEN Operation(<<>>, pp[2], Nil)
                      ELSE WithBody(d, <<>>, pp[2], SchemaRef(b[1]))) :
        pp \in SchemaParameters(d), b \in SchemaBodies }

SchemaDocuments == SchemaDocumentsOf("2") \cup SchemaDocumentsOf("3")

InitSchema ==
    InitWith(SchemaDocuments, NoHeaders, {Response(200, <<"[", "1", "]">>)}, OneCall,
             {[k \in {<<"id">>, <<"name">>} |-> StringValue(<<"x">>)]})

SpecSchema == InitSchema /\ [][Next]_vars

\* The parameters the document declares for an operation, the path item's and
\* the operation's own.
Declared(path, method) ==
    LET all == spec.Paths[path].Parameters \o spec.Paths[path].Operations[method].Parameters
    IN  {all[k] : k \in 1..Len(all)}

\* The top-level properties of the operation's request-body schema: of the
\* application/json content in the modern dialect, of the body parameter in the
\* legacy one.
DeclaredBodyProperties(path, method) ==
    LET op == spec.Paths[path].Operations[method]
    IN  IF spec.dialect = "3"
        THEN IF op.RequestBody = Nil THEN NoProperties
             ELSE op.RequestBody[1].Value[1].Content[1]["application/json"]
                    .Schema[1].Value[1].Properties
        ELSE IF \E q \in Declared(path, method) : q.In = "body"
        THEN (CHOOSE q \in Declared(path, method) : q.In = "body").Schema[1].Value[1].Properties
        ELSE NoProperties

\* C16: the input schema of every tool is an object whose properties are one
\* per declared parameter not located in the body, of type string when the
\* parameter has neither schema nor type, together with the top-level
\* properties of the request-body schema as siblings of them; there is no
\* property body and no property for a parameter located in the body.
C16_FlatInputSchema ==
    \A k \in 1..Len(tools) :
        LET tool   == tools[k]
            params == {q \in Declared(tool.Path, tool.Method) : q.In # "body"}
            body   == DeclaredBodyProperties(tool.Path, tool.Method)
            props  == tool.InputSchema.Properties
        IN  /\ tool.InputSchema.Type = "object"
            /\ DOMAIN props = {q.Name : q \in params} \cup DOMAIN body
            /\ <<"body">> \notin DOMAIN props
            /\ \A q \in params :
                   q.Name \notin DOMAIN body =>
                       props[q.Name].Type =
                           IF q.Schema # Nil THEN q.Schema[1].Value[1].Type
                           ELSE IF q.Type # "" THEN q.Type
                           ELSE "string"
            /\ \A n \in DOMAIN body :
                   /\ props[n].Type = body[n].Value[1].Type
                   /\ props[n].Properties = NoProperties

\* A legacy operation with an untyped path parameter, a typed query parameter
\* and a body of two properties has been compiled.
C16_Witness ==
    /\ spec.dialect = "2"
    /\ Len(tools) = 1
    /\ DOMAIN tools[1].InputSchema.Properties =
           {<<"id">>, <<"limit">>, <<"name">>, <<"active">>}
    /\ tools[1].InputSchema.Properties[<<"id">>].Type = "string"
    /\ tools[1].InputSchema.Properties[<<"limit">>].Type = "integer"
    /\ \E q \in Declared(UserPath, <<"post">>) : q.In = "body"

-----------------------------------------------------------------------------
(* Operations: path items with every method                                  *)

SevenMethods ==
    {<<"get">>, <<"post">>, <<"put">>, <<"delete">>, <<"patch">>, <<"head">>, <<"options">>}
EightMethods == SevenMethods \cup {<<"trace">>}

\* The methods a path item defines: up to MaxMethods of the eight.
MaxMethods == 2
MethodSets == {ms \in SUBSET EightMethods : Cardinality(ms) <= MaxMethods}

\* /users with the given methods and /users/{id} with GET or with nothing.
MethodDocuments ==
    { Document(d, ExampleBase, [n \in {} |-> Nil],
               [p \in {UsersPath, UserPath} |->
                   IF p = UsersPath
                   THEN PathItem(<<>>, [m \in ms |-> Operation(<<>>, <<>>, Nil)])
                   ELSE PathItem(<<Parameter(<<"id">>, "path", TRUE)>>,
                                 [m \in other |-> Operation(<<>>, <<>>, Nil)])]) :
        d \in {"2", "3"}, ms \in MethodSets, other \in {{}, {<<"get">>}} }

InitMethods ==
    InitWith(MethodDocuments, NoHeaders, {Response(200, <<"[", "1", "]">>)}, OneCall,
             {[k \in {<<"id">>} |-> NumberValue(<<"7">>)]})

SpecMethods == InitMethods /\ [][Next]_vars

\* The (path, method) pairs at which the document defines an operation, over
\* the methods of its dialect.
DefinedOperations ==
    { pm \in (DOMAIN spec.Paths) \X EightMethods :
        /\ pm[2] \in DOMAIN spec.Paths[pm[1]].Operations
        /\ pm[2] \in IF spec.dialect = "3" THEN EightMethods ELSE SevenMethods }

\* C17: the descriptors GetToolsFromSpec returns are one for each (path,
\* method) pair at which the document defines an operation, over seven methods
\* in the legacy dialect and eight, with trace, in the modern one, and no
\* others: there are as many tools as defined operations.
C17_OneToolPerOperation ==
    phase = "serving" =>
        /\ Len(tools) = Cardinality(DefinedOperations)
        /\ \A pm \in DefinedOperations :
               Cardinality({k \in 1..Len(tools) :
                               tools[k].Path = pm[1] /\ tools[k].Method = pm[2]}) = 1
        /\ \A k \in 1..Len(tools) : <<tools[k].Path, tools[k].Method>> \in DefinedOperations

\* A modern document with TRACE and HEAD on /users and GET on /users/{id}.
C17_Witness ==
    /\ phase = "serving"
    /\ spec.dialect = "3"
    /\ Len(tools) = 3
    /\ \E k, l \in 1..Len(tools) :
          /\ tools[k].Method = <<"trace">> /\ tools[k].Path = UsersPath
          /\ tools[l].Method = <<"head">> /\ tools[l].Path = UsersPath

-----------------------------------------------------------------------------
(* The configure command: runs on client configuration files of every kind  *)

\* An entry of mcpServers: a command with arguments, a command alone, or a
\* command with arguments and an environment.
Entries ==
    { [m \in ms |-> CASE m = "command" -> StringValue(<<"npx">>)
                      [] m = "args"    -> ArrayValue(<<"-y", "server">>)
                      [] OTHER         -> StringValue(<<"KEY=value">>)] :
        ms \in {{"command", "args"}, {"command"}, {"command", "args", "env"}} }

\* Files with and without an entry "other", with and without an entry
\* "my-api", with and without a member besides mcpServers.
ConfigFiles ==
    {AbsentFile, MalformedFile} \cup
    { JSONFile(top, [n \in ns |-> IF n = "other" THEN e
                                  ELSE [m \in {"command", "args"} |->
                                           IF m = "command" THEN StringValue(Executable)
                                           ELSE ArrayValue(<<"serve", "old.json">>)]]) :
        top \in {{}, {"theme"}}, ns \in SUBSET {"other", "my-api"}, e \in Entries }

InitConfigure ==
    /\ configFile \in ConfigFiles
    /\ configured \in {[NoRun EXCEPT !.client = c] : c \in Clients}
    /\ data = Encoded(PlainDocument)
    /\ spec = NoSpec
    /\ loadErr = <<>>
    /\ additionalHeaders = EmptyValues
    /\ upstream = Response(200, <<>>)
    /\ phase = "configure"
    /\ pending = {}
    /\ curPath = <<>>
    /\ tools = <<>>
    /\ compileErr = <<>>
    /\ server = [n \in {} |-> <<>>]
    /\ calls = [i \in {} |-> <<>>]
    /\ network = <<>>

NextConfigure ==
    \E serverName \in {"my-api", "weather"}, headers \in {<<>>, <<"X-Api-Key=key123">>},
       dryRun \in BOOLEAN, mkdirAll \in BOOLEAN, writeFile \in BOOLEAN :
        Configure("/specs/openapi.json", serverName, headers, dryRun, mkdirAll, writeFile)

SpecConfigure == InitConfigure /\ [][NextConfigure]_vars

\* C18: a run of configure on an existing configuration file leaves every
\* server entry other than the one of the given name in the file, with its
\* content unchanged.
C18_OtherEntriesPreserved ==
    [][ configFile.kind = "json" /\ configured'.runs # configured.runs =>
            \A n \in DOMAIN configFile.servers \ {configured'.name} :
                /\ n \in DOMAIN configFile'.servers
                /\ configFile'.servers[n] = configFile.servers[n] ]_vars

\* C29: a run of configure whose configuration could not be produced or
\* written (the existing file does not parse, the directory cannot be
\* created, the file cannot be written) returns an error, for either client,
\* and prints the success message only when none of these failed.
C29_FailureReturned ==
    configured.runs > 0 =>
        /\ configured.failed # <<>> => (configured.err # <<>> /\ ~configured.message)
        /\ configured.message => configured.failed = <<>>

-----------------------------------------------------------------------------
(* Headers: operations with header parameters and bodies, under additional  *)
(* headers given once or several times                                       *)

\* The number of --headers flags of the serve command.
MaxHeaderFlags == 2

HeaderFlags ==
    { <<n, "=", v>> : n \in {"X-Key", "authorization", "content-type"}, v \in {"a", "b"} }

\* What parseHeaders makes of every list of flags.
AdditionalHeaders ==
    { parseHeaders(hs).headers : hs \in StringsUpTo(HeaderFlags, MaxHeaderFlags) }

\* POST /users with a body or without, and with a header parameter X-Key, a
\* header parameter Content-Type, or none.
HeaderDocuments ==
    { SingleOperation(d, UsersPath, <<>>, <<"post">>,
                      IF body THEN WithBody(d, <<>>, ps, SchemaRef(UserSchema))
                      ELSE Operation(<<>>, ps, Nil)) :
        d \in {"2", "3"}, body \in BOOLEAN,
        ps \in {<<>>, <<Parameter(<<"X-Key">>, "header", FALSE)>>,
                <<Parameter(<<"Content-Type">>, "header", FALSE)>>} }

HeaderInputs ==
    { [k \in {<<"name">>, <<"X-Key">>, <<"Content-Type">>} |->
          CASE k = <<"name">>  -> StringValue(<<"x">>)
            [] k = <<"X-Key">> -> StringValue(<<"in">>)
            [] OTHER           -> StringValue(<<"text/plain">>)] }

InitHeaders ==
    InitWith(HeaderDocuments, AdditionalHeaders, {Response(200, <<"[", "1", "]">>)},
             OneCall, HeaderInputs)

SpecHeaders == InitHeaders /\ [][Next]_vars

\* The values the request of call i carries under a header name.
Carried(i, name) ==
    IF name \in DOMAIN calls[i].req.Header THEN calls[i].req.Header[name] ELSE <<>>

\* The header parameters the operation of call i declares and the input gives.
GivenHeaderParameters(i) ==
    {q \in Declared(ToolOf(i).Path, ToolOf(i).Method) :
        q.In = "header" /\ q.Name \in DOMAIN calls[i].input}

\* The operation of call i declares a request body.
DeclaresBody(i) ==
    IF spec.dialect = "3"
    THEN spec.Paths[ToolOf(i).Path].Operations[ToolOf(i).Method].RequestBody # Nil
    ELSE \E q \in Declared(ToolOf(i).Path, ToolOf(i).Method) : q.In = "body"

\* C19: the request an invocation dispatches carries every configured
\* additional header value, also several values under one name, after the
\* values Content-Type and the header parameters have set, which are all
\* still there.
C19_AdditionalHeadersAdded ==
    \A i \in DOMAIN calls :
        calls[i].pc = "inflight" =>
            /\ \A name \in DOMAIN additionalHeaders :
                   \A k \in 1..Len(additionalHeaders[name]) :
                       \E l \in 1..Len(Carried(i, name)) :
                           /\ Carried(i, name)[l] = additionalHeaders[name][k]
                           /\ l > Len(Carried(i, name)) - Len(additionalHeaders[name])
            /\ \A q \in GivenHeaderParameters(i) :
                   Carried(i, q.Name) # <<>>
                   /\ Carried(i, q.Name)[1] = Sprintf(calls[i].input[q.Name])
            /\ (DeclaresBody(i) /\ GivenHeaderParameters(i) = {}) =>
                   Carried(i, <<"Content-Type">>) # <<>>
                   /\ Carried(i, <<"Content-Type">>)[1] = <<"application/json">>

\* C20: the request of an invocation of an operation that declares a request
\* body has the Content-Type application/json, whatever the header parameters
\* and the additional headers are.
C20_ContentTypeJSON ==
    \A i \in DOMAIN calls :
        (calls[i].pc = "inflight" /\ DeclaresBody(i)) =>
            HeaderGet(calls[i].req.Header, <<"Content-Type">>) = <<"application/json">>

-----------------------------------------------------------------------------
(* Parameters: the same names at the level of the path and of the operation *)

\* The number of parameters a path item or an operation declares at most.
MaxParams == 2

\* A required path parameter, an optional and a required query parameter.
ParameterPool ==
    { Parameter(<<"id">>, "path", TRUE), Parameter(<<"limit">>, "query", FALSE),
      Parameter(<<"name">>, "query", TRUE) }

ParameterLists == StringsUpTo(ParameterPool, MaxParams)

\* POST /users/{id} with parameters at both levels, with and without a body
\* whose schema requires name.
ParameterDocuments ==
    { SingleOperation(d, UserPath, pl, <<"post">>,
                      IF body THEN WithBody(d, <<>>, ol, SchemaRef(UserSchema))
                      ELSE Operation(<<>>, ol, Nil)) :
        d \in {"2", "3"}, pl \in ParameterLists, ol \in ParameterLists, body \in BOOLEAN }

InitParams ==
    InitWith(ParameterDocuments, NoHeaders, {Response(200, <<"[", "1", "]">>)}, OneCall,
             {[k \in {<<"id">>, <<"name">>} |-> StringValue(<<"x">>)]})

SpecParams == InitParams /\ [][Next]_vars

\* The parameters the path item and the operation of a tool declare.
PathLevel(tool) == spec.Paths[tool.Path].Parameters
OperationLevel(tool) == spec.Paths[tool.Path].Operations[tool.Method].Parameters

\* C21: the parameters of every compiled operation are all the path-level
\* parameters in declared order, then all the operation-level parameters in
\* declared order, none left out for its name.
C21_PathThenOperation ==
    \A t \in 1..Len(tools) :
        LET got == GetParameters(spec, tools[t].Path, tools[t].Method)
            pl  == PathLevel(tools[t])
            ol  == OperationLevel(tools[t])
        IN  /\ Len(got) = Len(pl) + Len(ol)
            /\ \A k \in 1..Len(pl) : got[k] = pl[k]
            /\ \A k \in 1..Len(ol) : got[Len(pl) + k] = ol[k]

\* An operation has been compiled whose path item and which itself declare a
\* parameter limit: its parameters hold both.
C21_Witness ==
    /\ Len(tools) = 1
    /\ \E k \in 1..Len(PathLevel(tools[1])), l \in 1..Len(OperationLevel(tools[1])) :
          /\ PathLevel(tools[1])[k].Name = <<"limit">>
          /\ OperationLevel(tools[1])[l].Name = <<"limit">>
          /\ Len(GetParameters(spec, UserPath, <<"post">>)) = 4

-----------------------------------------------------------------------------
(* Definitions: legacy body parameters that refer to the definitions table  *)

\* The definitions table: empty, with an entry user that has a schema, with an
\* entry user that has none.
DefinitionTables ==
    { [n \in {} |-> Nil],
      [n \in {<<"user">>} |-> Some(UserSchema)],
      [n \in {<<"user">>} |-> Nil] }

\* References without an inline value: to the definitions user and other, and
\* to a definition of another file.
References ==
    { Unresolved(<<"user">>), Unresolved(<<"other">>),
      [Ref |-> <<"other.json", "#/definitions/", "user">>, Value |-> Nil] }

\* Legacy documents with POST /users, whose body parameter the operation or
\* the path item declares, and possibly GET /users.
DefinitionDocuments ==
    { Document("2", ExampleBase, defs,
               [p \in {UsersPath} |->
                   PathItem(IF atPath THEN <<BodyParameter(ref)>> ELSE <<>>,
                            [m \in {<<"post">>} \cup gets |->
                                IF m = <<"post">> /\ ~atPath
                                THEN Operation(<<>>, <<BodyParameter(ref)>>, Nil)
                                ELSE Operation(<<>>, <<>>, Nil)])]) :
        defs \in DefinitionTables, ref \in References, atPath \in BOOLEAN,
        gets \in {{}, {<<"get">>}} }

InitDefinitions ==
    InitWith(DefinitionDocuments, NoHeaders, {Response(200, <<"[", "1", "]">>)}, OneCall,
             {[k \in {<<"name">>} |-> StringValue(<<"x">>)]})

SpecDefinitions == InitDefinitions /\ [][Next]_vars

\* The reference of the body parameter of POST /users.
BodyRef ==
    LET item == spec.Paths[UsersPath]
        all  == item.Parameters \o item.Operations[<<"post">>].Parameters
    IN  all[CHOOSE k \in 1..Len(all) : all[k].In = "body"].Schema[1]

\* The reference names an entry of the definitions table that has a schema.
Defined ==
    /\ Head(BodyRef.Ref) = "#/definitions/"
    /\ Tail(BodyRef.Ref) \in DOMAIN spec.Definitions
    /\ spec.Definitions[Tail(BodyRef.Ref)] # Nil

\* C22: a legacy body parameter whose schema is a reference without an inline
\* value is compiled from the entry of that name of the definitions table;
\* when the table has no such entry, or the entry has no schema, the operation
\* yields an error that names the reference and the compilation fails: no
\* tool is compiled from a missing or empty schema.
C22_ReferenceResolvedOrError ==
    phase \notin {"loading", "unloaded"} =>
        IF Defined
        THEN /\ phase \notin {"failed", "crashed"}
             /\ \A t \in 1..Len(tools) :
                   tools[t].Method = <<"post">> =>
                       LET def == spec.Definitions[Tail(BodyRef.Ref)][1]
                       IN  /\ DOMAIN tools[t].InputSchema.Properties = DOMAIN def.Properties
                           /\ tools[t].InputSchema.Required = def.Required
        ELSE /\ \A t \in 1..Len(tools) : tools[t].Method # <<"post">>
             /\ phase # "serving"
             /\ <<UsersPath, <<"post">>>> \notin pending =>
                   /\ phase = "failed"
                   /\ tools = <<>>
                   /\ HasInfix(compileErr,
                               <<"could not resolve schema reference: ">> \o BodyRef.Ref)

\* The table has an entry user without a schema and the compilation has failed
\* on the body parameter that refers to it.
C22_Witness ==
    /\ phase = "failed"
    /\ <<"user">> \in DOMAIN spec.Definitions
    /\ BodyRef.Ref = <<"#/definitions/", "user">>
    /\ HasInfix(compileErr, <<"could not resolve schema reference: ", "#/definitions/", "user">>)

\* The body parameter refers to the entry user, which has a schema, and the
\* tool has been compiled from it.
C22_Resolved ==
    /\ phase = "serving"
    /\ Defined
    /\ \E t \in 1..Len(tools) : <<"name">> \in DOMAIN tools[t].InputSchema.Properties

\* The names of the required parameters of a list that are not in the body,
\* in the order of the list.
RequiredNames(params) ==
    LET sel == SelectSeq(params, LAMBDA q : q.Required /\ q.In # "body")
    IN  [k \in 1..Len(sel) |-> sel[k].Name]

\* The required list of the schema of the request body of a tool's operation.
BodyRequired(tool) ==
    IF \E k \in 1..Len(OperationLevel(tool)) : OperationLevel(tool)[k].In = "body"
    THEN UserSchema.Required
    ELSE IF spec.Paths[tool.Path].Operations[tool.Method].RequestBody # Nil
    THEN UserSchema.Required
    ELSE <<>>

\* C23: the required list of a compiled input schema is the names of the
\* required parameters outside the body, path-level before operation-level in
\* declared order, followed by the required list of the body schema, with a
\* name listed as often as it is required.
C23_RequiredConcatenated ==
    \A t \in 1..Len(tools) :
        tools[t].InputSchema.Required =
            RequiredNames(PathLevel(tools[t])) \o RequiredNames(OperationLevel(tools[t]))
                \o BodyRequired(tools[t])

\* name is required by a parameter of the path, by one of the operation and by
\* the body schema: the compiled schema lists it three times.
C23_Witness ==
    /\ Len(tools) = 1
    /\ \E k \in 1..Len(PathLevel(tools[1])) : PathLevel(tools[1])[k].Name = <<"name">>
    /\ \E k \in 1..Len(OperationLevel(tools[1])) : OperationLevel(tools[1])[k].Name = <<"name">>
    /\ BodyRequired(tools[1]) = <<<<"name">>>>
    /\ tools[1].InputSchema.Required = <<<<"name">>, <<"name">>, <<"name">>>>

-----------------------------------------------------------------------------
(* Response headers: names with no, one and several values                   *)

\* The number of values a response header name has at most.
MaxHeaderValues == 2

HeaderValueLists == StringsUpTo({<<"a">>, <<"b">>}, MaxHeaderValues)

\* Answers with the headers Content-Type and Set-Cookie, each with any list of
\* values.
HeaderResponses ==
    { [StatusCode |-> st,
       Header |-> [h \in {<<"Content-Type">>, <<"Set-Cookie">>} |->
                      IF h = <<"Content-Type">> THEN ct ELSE sc],
       Body |-> <<"[", "1", "]">>] :
        st \in {200, 404}, ct \in HeaderValueLists, sc \in HeaderValueLists }

InitResponseHeaders ==
    InitWith(ResponseDocuments, NoHeaders, HeaderResponses, OneCall, {[k \in {} |-> NullValue]})

SpecResponseHeaders == InitResponseHeaders /\ [][Next]_vars

\* C24: the output of a call that got a response has the status code of the
\* response and a headers mapping with one entry for each header name of the
\* response that has a value, holding the first value of the name.
C24_FirstHeaderValue ==
    \A i \in DOMAIN calls :
        (calls[i].pc = "done" /\ calls[i].resp # Nil) =>
            LET resp == calls[i].resp[1]
                out  == calls[i].output
            IN  /\ out.StatusCode = resp.StatusCode
                /\ out.Headers # Nil
                /\ \A h \in DOMAIN resp.Header :
                      IF resp.Header[h] = <<>> THEN h \notin DOMAIN out.Headers[1]
                      ELSE /\ h \in DOMAIN out.Headers[1]
                           /\ out.Headers[1][h] = Head(resp.Header[h])
                /\ DOMAIN out.Headers[1] \subseteq DOMAIN resp.Header

\* A response with the status 404, no value of Content-Type and the values a
\* and b of Set-Cookie was put out with the one header Set-Cookie: a.
C24_Witness ==
    \E i \in DOMAIN calls :
        /\ calls[i].pc = "done"
        /\ calls[i].resp # Nil
        /\ calls[i].resp[1].Header[<<"Content-Type">>] = <<>>
        /\ calls[i].resp[1].Header[<<"Set-Cookie">>] = <<<<"a">>, <<"b">>>>
        /\ calls[i].resp[1].StatusCode = 404
        /\ calls[i].output.StatusCode = 404
        /\ calls[i].output.Headers = Some([h \in {<<"Set-Cookie">>} |-> <<"a">>])

-----------------------------------------------------------------------------
(* Body schemas of any declared type                                         *)

\* The declared type of the body schema: object, none, array.
BodyTypes == {"object", "", "array"}

TypedBodySchema(type, kinds) == [BodySchema(kinds) EXCEPT !.Type = type]

TypedBodyDocuments ==
    { SingleOperation(d, UsersPath, <<>>, <<"post">>,
                      WithBody(d, <<>>, <<>>, SchemaRef(TypedBodySchema(type, kinds)))) :
        d \in {"2", "3"}, type \in BodyTypes, kinds \in PropertyKinds }

TypedBodyInputs ==
    { [k \in K |-> IF k = <<"name">> THEN StringValue(<<"x">>) ELSE BoolValue(<<"false">>)] :
        K \in SUBSET {<<"name">>, <<"active">>} }

InitTypedBody ==
    InitWith(TypedBodyDocuments, NoHeaders, {Response(200, <<"[", "1", "]">>)}, OneCall,
             TypedBodyInputs)

SpecTypedBody == InitTypedBody /\ [][Next]_vars

\* C25: every property the compiled input schema of a tool advertises for the
\* request body is, when the input has it, a member of the JSON body of the
\* request, with the input's value.
C25_AdvertisedFieldsSent ==
    \A i \in DOMAIN calls :
        calls[i].pc # "idle" =>
            \A p \in DOMAIN ToolOf(i).InputSchema.Properties :
                p \in DOMAIN calls[i].input =>
                    \E k \in 1..Len(Members(calls[i].req.Body)) :
                        /\ KeyOf(Members(calls[i].req.Body)[k]) = p
                        /\ ValueOf(Members(calls[i].req.Body)[k]) = MarshalValue(calls[i].input[p])

-----------------------------------------------------------------------------
(* Tool names: documents with two operations                                 *)

\* /users/id, a path without a parameter
UserIdPath == <<"/", "users", "/", "id">>

\* The operation identifiers of the two operations: none or getUser. The
\* modern dialect's validation refuses a document that uses one identifier
\* twice; the legacy dialect is not validated.
OperationIDs(dialect) ==
    { ids \in [1..2 -> {<<>>, <<"getUser">>}] :
        dialect = "3" => (ids[1] = <<>> \/ ids[1] # ids[2]) }

\* Two of the paths /users, /users/{id} and /users/id, each with a GET.
NameDocumentsOf(dialect) ==
    { Document(dialect, ExampleBase, [n \in {} |-> Nil],
               [p \in {pp[1], pp[2]} |->
                   PathItem(<<>>, [m \in {<<"get">>} |->
                       Operation(IF p = pp[1] THEN ids[1] ELSE ids[2], <<>>, Nil)])]) :
        pp \in {<<UsersPath, UserPath>>, <<UsersPath, UserIdPath>>, <<UserPath, UserIdPath>>},
        ids \in OperationIDs(dialect) }

NameDocuments == NameDocumentsOf("2") \cup NameDocumentsOf("3")

InitNames ==
    InitWith(NameDocuments, NoHeaders, {Response(200, <<"[", "1", "]">>)}, OneCall,
             {[k \in {<<"id">>} |-> NumberValue(<<"123">>)]})

SpecNames == InitNames /\ [][Next]_vars

\* C26: the tools compiled from the operations of one document have pairwise
\* distinct names, and once they are registered the server holds each of them
\* under its name: none has replaced another.
C26_DistinctToolNames ==
    /\ \A t, u \in 1..Len(tools) : t # u => tools[t].Name # tools[u].Name
    /\ phase = "serving" =>
           \A t \in 1..Len(tools) :
               /\ tools[t].Name \in DOMAIN server
               /\ server[tools[t].Name] = tools[t]

-----------------------------------------------------------------------------
(* Locations: parameters with and without a location and a description       *)

\* The locations a parameter of a loaded document can have: the modern
\* dialect's validation refuses a location other than path, query, header and
\* cookie; the legacy dialect is not validated, a parameter may have none.
Locations(dialect) == IF dialect = "3" THEN {"path", "query"} ELSE {"path", "query", ""}

\* GET /users/{id} with the parameter id at the path item or the operation,
\* and possibly POST /users/{id} with a body schema with or without a type.
LocationDocumentsOf(dialect) ==
    { Document(dialect, ExampleBase, [n \in {} |-> Nil],
               [p \in {UserPath} |->
                   PathItem(IF atPath THEN <<param>> ELSE <<>>,
                            [m \in {<<"get">>} \cup posts |->
                                IF m = <<"get">>
                                THEN Operation(<<>>, IF atPath THEN <<>> ELSE <<param>>, Nil)
                                ELSE WithBody(dialect, <<>>, <<>>,
                                              SchemaRef(TypedBodySchema(type,
                                                  [q \in {<<"name">>, <<"active">>} |-> "plain"])))])]) :
        param \in { [Parameter(<<"id">>, in, TRUE) EXCEPT !.Description = descr] :
                        in \in Locations(dialect), descr \in {<<>>, <<"the id">>} },
        atPath \in BOOLEAN, posts \in {{}, {<<"post">>}}, type \in {"", "object"} }

LocationDocuments == LocationDocumentsOf("2") \cup LocationDocumentsOf("3")

InitLocations ==
    InitWith(LocationDocuments, NoHeaders, {Response(200, <<"[", "1", "]">>)}, OneCall,
             {[k \in {<<"id">>} |-> NumberValue(<<"123">>)]})

SpecLocations == InitLocations /\ [][Next]_vars

\* C27: the compilation of a loaded document never crashes: it ends with the
\* error of an operation and no descriptor, or with one descriptor for each
\* operation of the document.
C27_CompilationNeverCrashes ==
    /\ phase # "crashed"
    /\ phase = "failed" => (tools = <<>> /\ compileErr # <<>>)
    /\ phase = "serving" => Len(tools) = Cardinality(OperationsOf(spec))

-----------------------------------------------------------------------------
(* Properties: body schemas whose properties refer to definitions            *)

EmailSchema == Schema("string", NoProperties, <<>>, Nil)

\* How the body schema declares the property email: not at all, inline, as
\* a reference to a definition the table has, as one to a definition it lacks.
\* The modern dialect's loader resolves every reference or refuses the
\* document; the legacy dialect's decoder leaves a reference without a value.
EmailKinds(dialect) ==
    IF dialect = "3" THEN {"absent", "inline"}
    ELSE {"absent", "inline", "defined", "undefined"}

PropertiesSchema(kind) ==
    Schema("object",
           [p \in {<<"name">>} \cup (IF kind = "absent" THEN {} ELSE {<<"email">>}) |->
               CASE p = <<"name">>     -> SchemaRef(Schema("string", NoProperties, <<>>, Nil))
                 [] kind = "inline"    -> SchemaRef(EmailSchema)
                 [] kind = "defined"   -> Unresolved(<<"email">>)
                 [] OTHER              -> Unresolved(<<"other">>)],
           <<>>, Nil)

PropertiesDocumentsOf(dialect) ==
    { Document(dialect, ExampleBase, [n \in {<<"email">>} |-> Some(EmailSchema)],
               [p \in {UsersPath} |->
                   PathItem(<<>>, [m \in {<<"post">>} |->
                       WithBody(dialect, <<>>, <<>>, SchemaRef(PropertiesSchema(kind)))])]) :
        kind \in EmailKinds(dialect) }

PropertiesDocuments == PropertiesDocumentsOf("2") \cup PropertiesDocumentsOf("3")

PropertiesInputs ==
    { [k \in K |-> StringValue(<<"x">>)] : K \in SUBSET {<<"name">>, <<"email">>} }

InitProperties ==
    InitWith(PropertiesDocuments, NoHeaders, {Response(200, <<"[", "1", "]">>)}, OneCall,
             PropertiesInputs)

SpecProperties == InitProperties /\ [][Next]_vars

\* The properties the request-body schema of POST /users declares, and those
\* of them whose reference resolves: it has a value or names a definition.
DeclaredProperties ==
    LET operation == spec.Paths[UsersPath].Operations[<<"post">>]
    IN  IF spec.dialect = "3"
        THEN operation.RequestBody[1].Value[1].Content[1]["application/json"].Schema[1]
                 .Value[1].Properties
        ELSE operation.Parameters[1].Schema[1].Value[1].Properties

Resolvable(ref) ==
    \/ ref.Value # Nil
    \/ /\ Head(ref.Ref) = "#/definitions/"
       /\ Tail(ref.Ref) \in DOMAIN spec.Definitions
       /\ spec.Definitions[Tail(ref.Ref)] # Nil

\* C28: every property the request-body schema declares is a property of the
\* compiled input schema and, when the input has it, a member of the body
\* sent; a document with a property whose reference does not resolve compiles
\* to an error, not to a tool without the property.
C28_DeclaredPropertiesKept ==
    /\ \A t \in 1..Len(tools) :
          DOMAIN DeclaredProperties \subseteq DOMAIN tools[t].InputSchema.Properties
    /\ (phase = "serving" \/ (phase = "compiling" /\ pending = {})) =>
          \A p \in DOMAIN DeclaredProperties : Resolvable(DeclaredProperties[p])
    /\ \A i \in DOMAIN calls :
          calls[i].pc # "idle" =>
              \A p \in DOMAIN DeclaredProperties \cap DOMAIN calls[i].input :
                  \E k \in 1..Len(Members(calls[i].req.Body)) :
                      KeyOf(Members(calls[i].req.Body)[k]) = p

-----------------------------------------------------------------------------
(* Iteration order: what the compilation returns, in whatever order it       *)
(* visited the paths and the methods                                         *)

\* The descriptors compiled so far, without their positions.
Descriptors == {tools[t] : t \in 1..Len(tools)}

\* The names of the properties of the parameters and of the request body of
\* the operation of a tool.
AdvertisedBy(tool) ==
    {GetParameters(spec, tool.Path, tool.Method)[k].Name :
        k \in {j \in 1..Len(GetParameters(spec, tool.Path, tool.Method)) :
                  GetParameters(spec, tool.Path, tool.Method)[j].In # "body"}}
    \cup (IF hasRequestBody(spec, tool.Path, tool.Method)
          THEN DOMAIN UserSchema.Properties ELSE {})

\* C30: the descriptors the compilation returns are a function of the document
\* alone: one for each operation, each with the name, description, properties,
\* required list, method, path and base URL its operation determines, in
\* whatever order the paths and the methods were visited.
C30_OrderIndependent ==
    /\ \A t, u \in 1..Len(tools) :
          (tools[t].Path = tools[u].Path /\ tools[t].Method = tools[u].Method) => t = u
    /\ \A d \in Descriptors :
          /\ <<d.Path, d.Method>> \in OperationsOf(spec)
          /\ d.Name = generateToolName(d.Method, d.Path,
                                       spec.Paths[d.Path].Operations[d.Method].OperationID)
          /\ d.Description = ToUpper(d.Method) \o <<" ">> \o d.Path
          /\ d.BaseUrl = GetBaseURL(spec)
          /\ DOMAIN d.InputSchema.Properties = AdvertisedBy(d)
          /\ d.InputSchema.Required =
                 RequiredNames(spec.Paths[d.Path].Parameters)
                 \o RequiredNames(spec.Paths[d.Path].Operations[d.Method].Parameters)
                 \o (IF hasRequestBody(spec, d.Path, d.Method) THEN UserSchema.Required ELSE <<>>)
    /\ phase = "serving" =>
          {<<d.Path, d.Method>> : d \in Descriptors} = OperationsOf(spec)

\* The compilation visited /users/{id} before /users and POST before GET, and
\* returned the three descriptors.
C30_Witness ==
    /\ phase = "serving"
    /\ Len(tools) = 3
    /\ tools[1].Path = UserPath
    /\ tools[2].Method = <<"post">>
    /\ tools[3].Method = <<"get">>

\* The same document compiled in the opposite order.
C30_OtherOrder ==
    /\ phase = "serving"
    /\ Len(tools) = 3
    /\ tools[3].Path = UserPath
    /\ tools[1].Method = <<"get">>
    /\ tools[2].Method = <<"post">>

=============================================================================
